---- MODULE Spec2Model ----
(***************************************************************************)
(* Model of the OAuth 2.1 authorization server of generic-go-mcp (package  *)
(* auth) : the persistent store, the token service, PKCE validation, the   *)
(* /authorize, /callback and /token handlers and the bearer middleware.    *)
(*                                                                         *)
(* Time is counted in seconds.  Random tokens (generateSecureToken) are    *)
(* modelled as fresh naturals drawn from one counter, so a token is never  *)
(* generated twice and a caller can present only values that were already  *)
(* generated, or the value Garbage that never is.                          *)
(***************************************************************************)
EXTENDS Integers, Sequences, FiniteSets, TLC

(***************************************************************************)
(* Bounds of the model.                                                    *)
(***************************************************************************)
\* number of random tokens generated in one behaviour of Spec
MaxTokens == 7
\* number of random tokens generated in one behaviour of ConcSpec
MaxConcTokens == 9
\* number of /authorize requests accepted in one behaviour
MaxAuthorizations == 1
\* number of clock advances in one behaviour
MaxTicks == 1
\* number of request handlers that run concurrently in ConcSpec
NumProcs == 2

\* the parts of a second that the clock resolves
ClockResolution == 2
\* number of random tokens generated in one behaviour of ClientSpec
MaxClientTokens == 9
\* number of sessions created in one behaviour of SessionSpec
MaxSessions == 2
\* number of keepalives written to one event stream
MaxPings == 1

\* the messages queued for the streams of a session
MaxMessages == 1

\* the sessions of StreamSpec
MaxStreamSessions == 1

\* number of values generateSecureToken may return in RefreshSpec
MaxRefreshSpecTokens == 9

\* capacity of session.Response: make(chan []byte, 10)
ResponseBuffer == 10

(***************************************************************************)
(* Program constants.                                                      *)
(***************************************************************************)
PKCEVerifierMinLength == 43
PKCEVerifierMaxLength == 128
S256ChallengeLength == 43
AccessTokenTTL == 3600
RefreshTokenTTL == 2592000
AuthCodeTTL == 600
AuthRequestTTL == 600

StatusOK == 200
StatusFound == 302
StatusCreated == 201
StatusNoContent == 204
StatusBadRequest == 400
StatusUnauthorized == 401
StatusForbidden == 403
StatusNotFound == 404
StatusMethodNotAllowed == 405

PKCEMethodS256 == "S256"
PKCEMethodPlain == "plain"

\* a token value that generateSecureToken never returns
Garbage == 0

\* a clock that never reports an instant as later than another
AfterNever(t, u) == FALSE

\* time.Time.After: the instant t is later than the instant u
After(t, u) == t > u

(***************************************************************************)
(* Strings of the PKCE exchange.  A string is [h, chars]: h = 0 is the     *)
(* literal text chars (a sequence of one-character strings); h > 0 is the  *)
(* unpadded base64url text of the SHA-256 digest of the string [h - 1,     *)
(* chars].  SHA-256 is taken to be collision free, so two digests are      *)
(* equal exactly when their preimages are, and a digest is never equal to  *)
(* a literal text of the model.                                            *)
(***************************************************************************)
Text(cs) == [h |-> 0, chars |-> cs]

EmptyStr == Text(<<>>)

\* RawURLEncoding of 32 bytes: 43 characters of [A-Za-z0-9-_]
StrLen(s) == IF s.h > 0 THEN S256ChallengeLength ELSE Len(s.chars)

Sha256Base64(s) == [h |-> s.h + 1, chars |-> s.chars]

UnreservedChars ==
    {"A","B","C","D","E","F","G","H","I","J","K","L","M","N","O","P","Q","R","S",
     "T","U","V","W","X","Y","Z","a","b","c","d","e","f","g","h","i","j","k","l",
     "m","n","o","p","q","r","s","t","u","v","w","x","y","z","0","1","2","3","4",
     "5","6","7","8","9","-",".","_","~"}

\* ^[A-Za-z0-9\-._~]{43,128}$
pkceVerifierPattern(s) ==
    /\ StrLen(s) >= PKCEVerifierMinLength
    /\ StrLen(s) <= PKCEVerifierMaxLength
    /\ s.h = 0 => \A i \in 1..Len(s.chars) : s.chars[i] \in UnreservedChars

\* ValidatePKCE comparing only the lengths of the two texts
ValidatePKCELengthOnly(codeVerifier, codeChallenge, method) ==
    IF codeVerifier = EmptyStr THEN "code_verifier is required (PKCE is mandatory)"
    ELSE IF ~pkceVerifierPattern(codeVerifier) THEN "invalid code_verifier format"
    ELSE IF method \notin {PKCEMethodS256, "", PKCEMethodPlain}
         THEN "unsupported code_challenge_method"
    ELSE LET computed == IF method = PKCEMethodPlain THEN codeVerifier
                         ELSE Sha256Base64(codeVerifier)
         IN IF StrLen(computed) # StrLen(codeChallenge)
            THEN "code_verifier does not match code_challenge"
            ELSE "ok"

\* ValidatePKCE: "ok" for a nil error, else the error text
ValidatePKCE(codeVerifier, codeChallenge, method) ==
    IF codeVerifier = EmptyStr THEN "code_verifier is required (PKCE is mandatory)"
    ELSE IF ~pkceVerifierPattern(codeVerifier) THEN "invalid code_verifier format"
    ELSE IF method \notin {PKCEMethodS256, "", PKCEMethodPlain}
         THEN "unsupported code_challenge_method"
    ELSE LET computed == IF method = PKCEMethodPlain THEN codeVerifier
                         ELSE Sha256Base64(codeVerifier)
         IN IF computed # codeChallenge
            THEN "code_verifier does not match code_challenge"
            ELSE "ok"

ValidateCodeChallenge(codeChallenge, method) ==
    IF codeChallenge = EmptyStr THEN "code_challenge is required (PKCE is mandatory)"
    ELSE IF (method = PKCEMethodS256 \/ method = "")
            /\ StrLen(codeChallenge) # S256ChallengeLength
         THEN "invalid code_challenge length for S256"
    ELSE "ok"

(***************************************************************************)
(* The store: one map per bucket.                                          *)
(***************************************************************************)
EmptyBucket == [k \in {} |-> 0]

Put(b, k, v) == [x \in (DOMAIN b) \cup {k} |-> IF x = k THEN v ELSE b[x]]

Delete(b, k) == [x \in (DOMAIN b) \ {k} |-> b[x]]

Has(b, k) == k \in DOMAIN b

\* Authorization codes
StoreAuthCode(codes, code) == Put(codes, code.Code, code)

\* a delete that leaves the code in the bucket
DeleteAuthCodeKeeps(codes, code) == codes

DeleteAuthCode(codes, code) == Delete(codes, code)

\* a write that drops the scope of the token
StoreAccessTokenNoScope(tokens, token) ==
    Put(tokens, token.Token, [token EXCEPT !.Scope = ""])

\* a write that keeps the new token only
StoreAccessTokenOnly(tokens, token) == Put(EmptyBucket, token.Token, token)

\* Access tokens
StoreAccessToken(tokens, token) == Put(tokens, token.Token, token)

\* Refresh tokens
StoreRefreshToken(tokens, token) == Put(tokens, token.Token, token)

\* a delete that leaves the token in the bucket
DeleteRefreshTokenKeeps(tokens, token) == tokens

DeleteRefreshToken(tokens, token) == Delete(tokens, token)

\* Clients
StoreClient(cs, client) == Put(cs, client.ClientID, client)

DeleteClient(cs, clientID) == Delete(cs, clientID)

ListClients(cs) == {cs[k] : k \in DOMAIN cs}

\* Pending auth requests
StoreAuthRequest(reqs, r) == Put(reqs, r.ID, r)

DeleteAuthRequest(reqs, id) == Delete(reqs, id)

(***************************************************************************)
(* Configuration of the deployment that is modelled: the issuer, one       *)
(* static client from the configuration file, and the allowlist.           *)
(***************************************************************************)
Issuer == "https://mcp"

ResourceMetadataURL == "https://mcp/.well-known/oauth-protected-resource"

ClientCB == "https://client/cb"

EvilCB == "https://evil/cb"

ConfigClients ==
    {[ClientID |-> "c1", ClientSecret |-> "s1", RedirectURIs |-> {ClientCB}]}

Allowlist == [Users |-> {"alice"}, Orgs |-> {"acme"}, Teams |-> {}]

\* a digest that returns the secret itself
hashSecretPlain(secret) == secret

\* one-way digest of a client secret (SHA-256, hex); SHA-256 is taken to be
\* collision free and a digest is never equal to a secret of the model
hashSecret(secret) == "sha256:" \o secret

\* GenerateClientCredentials when generateSecureToken returns n and n + 1
GenerateClientCredentials(n) ==
    [clientID |-> ToString(n), clientSecret |-> ToString(n + 1)]

\* the lower-case form of the names the model uses
ToLower(s) ==
    CASE s = "Alice" -> "alice"
      [] s = "ACME" -> "acme"
      [] s = "Bearer" -> "bearer"
      [] s = "BEARER" -> "bearer"
      [] s = "Basic" -> "basic"
      [] s = "Core" -> "core"
      [] OTHER -> s

EqualFold(a, b) == ToLower(a) = ToLower(b)

\* a check that accepts every redirect URI
validateRedirectURIAny(client, redirectURI) == TRUE

validateRedirectURI(client, redirectURI) ==
    \E uri \in client.RedirectURIs : uri = redirectURI

(***************************************************************************)
(* isUserAuthorized.  orgs and teams are the results of GetUserOrgs and    *)
(* GetUserTeams: [ok, list], ok = FALSE for a failed fetch.                *)
(***************************************************************************)
\* a policy that approves every identity
isUserAuthorizedAny(allowlist, login, orgs, teams) == TRUE

\* a policy that compares names case by case
isUserAuthorizedCaseSensitive(allowlist, login, orgs, teams) ==
    IF allowlist.Users = {} /\ allowlist.Orgs = {} /\ allowlist.Teams = {}
    THEN TRUE
    ELSE IF login \in allowlist.Users THEN TRUE
    ELSE IF orgs.ok /\ orgs.list \cap allowlist.Orgs # {} THEN TRUE
    ELSE /\ allowlist.Teams # {}
         /\ teams.ok
         /\ \E team \in teams.list : \E allowedTeam \in allowlist.Teams :
               allowedTeam.Org = team.Org /\ allowedTeam.Team = team.Slug

isUserAuthorized(allowlist, login, orgs, teams) ==
    IF allowlist.Users = {} /\ allowlist.Orgs = {} /\ allowlist.Teams = {}
    THEN TRUE
    ELSE IF \E user \in allowlist.Users : EqualFold(user, login) THEN TRUE
    ELSE IF allowlist.Orgs # {} \/ allowlist.Teams # {}
         THEN IF orgs.ok /\ \E org \in orgs.list : \E allowedOrg \in allowlist.Orgs :
                               EqualFold(allowedOrg, org)
              THEN TRUE
              ELSE IF allowlist.Teams # {}
                   THEN teams.ok /\ \E team \in teams.list :
                            \E allowedTeam \in allowlist.Teams :
                               /\ EqualFold(allowedTeam.Org, team.Org)
                               /\ EqualFold(allowedTeam.Team, team.Slug)
                   ELSE FALSE
         ELSE FALSE

(***************************************************************************)
(* State.                                                                  *)
(***************************************************************************)
VARIABLES
    clients,        \* bucket clients: client id -> RegisteredClient
    authRequests,   \* bucket auth_requests: id -> PendingAuthRequest
    authCodes,      \* bucket auth_codes: code -> AuthorizationCode
    accessTokens,   \* bucket access_tokens: token -> AccessToken
    refreshTokens,  \* bucket refresh_tokens: token -> RefreshToken
    users,          \* bucket users: user id -> User
    usersByGitHub,  \* bucket users_by_github: login -> user id
    now,            \* the wall clock, in seconds
    ticks,          \* number of clock advances so far
    nextTok,        \* the next value generateSecureToken returns
    budget,         \* number of values generateSecureToken may return
    pc,             \* position of each request handler
    req,            \* the request each handler is serving
    loc,            \* the local variables of each handler
    resp,           \* the response each handler has written
    accepted,       \* number of /authorize requests accepted so far
    presented,      \* the codes of the redemption requests that have completed
    grants,         \* token responses sent: [via, cred, access, refresh]
    minted,         \* what each random value was generated as, and from what
    pk,             \* the PKCE validation of PKCESpec
    az,             \* the policy evaluation of PolicySpec
    authService,    \* the transport has an auth service (t.authService != nil)
    sessions,       \* SessionManager.sessions: the ids in the sync.Map
    heap,           \* the Session objects, by id, in the map or not
    origin,         \* how each session was created: [via, principal]
    stopCh,         \* HTTPTransport.stopCh: open, or closed by Stop
    authSessions,   \* bucket sessions: session id -> AuthSession
    sessionsByToken \* bucket sessions_by_token: access token -> session id

storeVars == <<clients, authRequests, authCodes, accessTokens, refreshTokens,
               users, usersByGitHub>>

procVars == <<pc, req, loc, resp>>

\* the buckets no handler uses
sessionStore == <<authSessions, sessionsByToken>>

\* what no handler changes
fixed == <<budget, pk, az, authService, sessions, heap, origin, stopCh,
           sessionStore>>

\* what only the handlers that generate a credential change
outside == <<fixed, minted>>

vars == <<clients, authRequests, authCodes, accessTokens, refreshTokens, users,
          usersByGitHub, now, ticks, nextTok, budget, pc, req, loc, resp,
          accepted, presented, grants, minted, pk, az, authService, sessions,
          heap, origin, stopCh, authSessions, sessionsByToken>>

Procs == 1..NumProcs

Pad(c, n) == [i \in 1..n |-> c]

NoResult == [ok |-> TRUE, list |-> {}]

NoUp == [exchange |-> TRUE, user |-> TRUE, login |-> "", orgs |-> NoResult,
         teams |-> NoResult]

NoAuth == [present |-> FALSE, parts |-> 1, scheme |-> "", token |-> Garbage]

\* a URL path: route, or route/sub[1] when sub is not empty
NoPath == [route |-> "", sub |-> <<>>]

\* a JSON body: redirect_uris is <<>> when the member is absent
NoBody == [json_ok |-> TRUE, client_name |-> "", redirect_uris |-> <<>>]

\* the Mcp-Session-Id header: absent, an id no session ever had, and the
\* id made from the n-th random value
NoSessionID == [fmt |-> "", n |-> 0]

UnknownSessionID == [fmt |-> "uuid4", n |-> 0]

generateUUID(n) == [fmt |-> "uuid4", n |-> n]

NoReq ==
    [kind |-> "none", method |-> "", path |-> NoPath, body |-> NoBody,
     rpc |-> "", session_id |-> NoSessionID, principal |-> <<>>,
     client_id |-> "", redirect_uri |-> "", response_type |-> "",
     state |-> "", code_challenge |-> EmptyStr, code_challenge_method |-> "",
     resource |-> "", scope |-> "", upcode |-> "", cbstate |-> Garbage,
     code |-> Garbage, code_verifier |-> EmptyStr, refresh_token |-> Garbage,
     auth |-> NoAuth, up |-> NoUp]

NoResp ==
    [status |-> 0, error |-> "", desc |-> "", location |-> "", code |-> Garbage,
     state |-> "", upstate |-> Garbage, access_token |-> Garbage,
     refresh_token |-> Garbage, expires_in |-> 0, scope |-> "",
     www_authenticate |-> "", next |-> FALSE, panic |-> FALSE,
     client_id |-> "", client_secret |-> "", redirect_uris |-> {},
     clients |-> {}, session_id |-> NoSessionID, events |-> <<>>]

NoLoc == [rec |-> <<>>, user |-> <<>>, accessToken |-> <<>>,
          session |-> NoSessionID, ctx |-> "live", err |-> ""]

PKIdle == [phase |-> "none", verifier |-> EmptyStr, challenge |-> EmptyStr,
           method |-> "", presented |-> EmptyStr, mutated |-> FALSE,
           result |-> ""]

AZIdle == [phase |-> "none", allowlist |-> Allowlist, login |-> "",
           orgs |-> NoResult, teams |-> NoResult, result |-> FALSE]

(***************************************************************************)
(* Responses.                                                              *)
(***************************************************************************)
\* http.Error(w, message, code)
httpError(message, code) == [NoResp EXCEPT !.status = code, !.desc = message]

\* tokenError: 400 with a JSON OAuthError
tokenError(errorCode, description) ==
    [NoResp EXCEPT !.status = StatusBadRequest, !.error = errorCode,
                   !.desc = description]

\* authError.  Without a redirect URI the error is returned directly.  With
\* one, the handler calls http.Redirect(w, nil, ...): the request is nil and
\* no Content-Type is set, so http.Redirect dereferences the nil request and
\* the handler panics before any status line is written; the server drops
\* the connection and the caller receives no response.
authError(redirectURI, errorCode, description, state) ==
    IF redirectURI = ""
    THEN [NoResp EXCEPT !.status = StatusBadRequest, !.error = errorCode,
                        !.desc = description]
    ELSE [NoResp EXCEPT !.panic = TRUE, !.desc = description]

\* registrationError: 400 with a JSON OAuthError
registrationError(errorCode, description) ==
    [NoResp EXCEPT !.status = StatusBadRequest, !.error = errorCode,
                   !.desc = description]

\* unauthorized: 401 invalid_token with WWW-Authenticate
unauthorized(message) ==
    [NoResp EXCEPT !.status = StatusUnauthorized, !.error = "invalid_token",
                   !.desc = message, !.www_authenticate = ResourceMetadataURL]

(***************************************************************************)
(* Initial state: NewAuthService has stored the configured static clients. *)
(***************************************************************************)
NewAuthService ==
    [id \in {c.ClientID : c \in ConfigClients} |->
        LET c == CHOOSE c \in ConfigClients : c.ClientID = id
        IN [ClientID |-> c.ClientID, ClientSecret |-> hashSecret(c.ClientSecret),
            RedirectURIs |-> c.RedirectURIs, IsStatic |-> TRUE]]

InitCommon ==
    /\ clients = NewAuthService
    /\ authRequests = EmptyBucket
    /\ authCodes = EmptyBucket
    /\ accessTokens = EmptyBucket
    /\ refreshTokens = EmptyBucket
    /\ users = EmptyBucket
    /\ usersByGitHub = EmptyBucket
    /\ now = 0
    /\ ticks = 0
    /\ nextTok = 1
    /\ pc = [p \in Procs |-> "idle"]
    /\ req = [p \in Procs |-> NoReq]
    /\ loc = [p \in Procs |-> NoLoc]
    /\ resp = [p \in Procs |-> NoResp]
    /\ accepted = 0
    /\ presented = {}
    /\ grants = {}
    /\ minted = EmptyBucket
    /\ sessions = {}
    /\ heap = EmptyBucket
    /\ origin = EmptyBucket
    /\ stopCh = "open"
    /\ authSessions = EmptyBucket
    /\ sessionsByToken = EmptyBucket

Init ==
    InitCommon /\ budget = MaxTokens /\ pk = PKIdle /\ az = AZIdle /\ authService = TRUE

(***************************************************************************)
(* The environment: time passes, requests arrive, upstream answers.        *)
(***************************************************************************)
Expiries(b) == {b[k].ExpiresAt : k \in DOMAIN b}

\* the instants at which a stored record expires
StoredExpiries ==
    Expiries(authRequests) \cup Expiries(authCodes) \cup Expiries(accessTokens)
    \cup Expiries(refreshTokens)

\* the clock advances by one second, to the instant a stored record expires,
\* or to the second after that instant
Tick ==
    /\ ticks < MaxTicks
    /\ \E t \in {now + 1} \cup {e \in StoredExpiries : e > now}
                         \cup {e + 1 : e \in {x \in StoredExpiries : x >= now}} :
          now' = t
    /\ ticks' = ticks + 1
    /\ UNCHANGED <<storeVars, nextTok, procVars, accepted, presented, grants, outside>>

\* the entry of the ledger minted for a value generated as kind (request,
\* code, access, refresh) while the credential from was being consumed
Origin(kind, from, clientID, userID, scope, resource) ==
    [kind |-> kind, from |-> from, ClientID |-> clientID, UserID |-> userID,
     Scope |-> scope, Resource |-> resource]

\* the credential a /token request presents
Credential(q) == IF q.kind = "token_code" THEN q.code ELSE q.refresh_token

\* a request r arrives and handler p starts to serve it
Accept(p, r, kind) ==
    /\ pc[p] = "idle"
    /\ r.kind = kind
    /\ req' = [req EXCEPT ![p] = r]

\* handler p writes the response r to the request q, which is then complete
Respond(p, q, r) ==
    /\ pc' = [pc EXCEPT ![p] = "done"]
    /\ resp' = [resp EXCEPT ![p] = r]
    /\ presented' = IF q.kind = "token_code" /\ q.code # Garbage
                    THEN presented \cup {q.code} ELSE presented
    /\ grants' = IF r.access_token # Garbage
                 THEN grants \cup
                      {[via |-> q.kind,
                        cred |-> Credential(q),
                        access |-> r.access_token, refresh |-> r.refresh_token]}
                 ELSE grants

Finish(p, r) == Respond(p, req[p], r)

\* the handler goes on to its next store transaction
Goto(p, label) ==
    /\ pc' = [pc EXCEPT ![p] = label]
    /\ UNCHANGED <<resp, presented, grants>>

\* the handler returns
Return(p) ==
    /\ pc[p] = "done"
    /\ pc' = [pc EXCEPT ![p] = "idle"]
    /\ req' = [req EXCEPT ![p] = NoReq]
    /\ loc' = [loc EXCEPT ![p] = NoLoc]
    /\ resp' = [resp EXCEPT ![p] = NoResp]
    /\ UNCHANGED <<storeVars, now, ticks, nextTok, accepted, presented, grants, outside>>

(***************************************************************************)
(* handleAuthorize.  One action per store transaction; an action includes  *)
(* the handler's code from that transaction up to the next one.            *)
(***************************************************************************)
\* parameter checks, GetClient, validateRedirectURI
AuthorizeGetClient(p, r) ==
    /\ Accept(p, r, "authorize")
    /\ LET pkce == ValidateCodeChallenge(r.code_challenge, r.code_challenge_method)
       IN IF r.response_type # "code"
          THEN Respond(p, r, authError(r.redirect_uri, "unsupported_response_type",
                          "Only 'code' response_type is supported", r.state))
          ELSE IF pkce # "ok"
          THEN Respond(p, r, authError(r.redirect_uri, "invalid_request", pkce, r.state))
          ELSE IF ~Has(clients, r.client_id)
          THEN Respond(p, r, authError(r.redirect_uri, "invalid_client",
                          "Unknown client_id", r.state))
          ELSE IF ~validateRedirectURI(clients[r.client_id], r.redirect_uri)
          THEN Respond(p, r, authError(r.redirect_uri, "invalid_request",
                          "Invalid redirect_uri", r.state))
          ELSE accepted < MaxAuthorizations /\ Goto(p, "authz_store")
    /\ UNCHANGED <<storeVars, now, ticks, nextTok, loc, accepted, outside>>

\* generateSecureToken, StoreAuthRequest, redirect to the upstream provider
AuthorizeStoreAuthRequest(p) ==
    /\ pc[p] = "authz_store"
    /\ nextTok <= budget
    /\ LET r == req[p]
           authRequestID == nextTok
       IN /\ authRequests' = StoreAuthRequest(authRequests,
                [ID |-> authRequestID, ClientID |-> r.client_id,
                 RedirectURI |-> r.redirect_uri, Scope |-> r.scope,
                 State |-> r.state, CodeChallenge |-> r.code_challenge,
                 CodeChallengeMethod |-> r.code_challenge_method,
                 Resource |-> r.resource, ExpiresAt |-> now + AuthRequestTTL])
          /\ Finish(p, [NoResp EXCEPT !.status = StatusFound,
                                      !.location = "github",
                                      !.upstate = authRequestID])
          /\ minted' = Put(minted, authRequestID,
                Origin("request", Garbage, r.client_id, Garbage, r.scope, r.resource))
    /\ nextTok' = nextTok + 1
    /\ accepted' = accepted + 1
    /\ UNCHANGED <<clients, authCodes, accessTokens, refreshTokens, users,
                   usersByGitHub, now, ticks, req, loc, fixed>>

(***************************************************************************)
(* handleGitHubCallback.                                                   *)
(***************************************************************************)
\* GetUserByGitHubLogin: <<user>> or <<>> for ErrUserNotFound
GetUserByGitHubLogin(us, idx, login) ==
    IF Has(idx, login) /\ Has(us, idx[login]) THEN <<us[idx[login]]>> ELSE <<>>

\* a callback that deletes the pending request before it looks at the code
CallbackGetAuthRequestConsumes(p, r) ==
    /\ Accept(p, r, "callback")
    /\ authRequests' = DeleteAuthRequest(authRequests, r.cbstate)
    /\ IF r.upcode = ""
       THEN /\ Respond(p, r, httpError("Missing authorization code", StatusBadRequest))
            /\ loc' = loc
       ELSE IF ~Has(authRequests, r.cbstate)
       THEN /\ Respond(p, r, httpError("Invalid or expired authorization request",
                                       StatusBadRequest))
            /\ loc' = loc
       ELSE /\ Goto(p, "cb_delete")
            /\ loc' = [loc EXCEPT ![p].rec = <<authRequests[r.cbstate]>>]
    /\ UNCHANGED <<clients, authCodes, accessTokens, refreshTokens, users,
                   usersByGitHub, now, ticks, nextTok, accepted, outside>>

\* code parameter, GetAuthRequest
CallbackGetAuthRequest(p, r) ==
    /\ Accept(p, r, "callback")
    /\ IF r.upcode = ""
       THEN /\ Respond(p, r, httpError("Missing authorization code", StatusBadRequest))
            /\ loc' = loc
       ELSE IF ~Has(authRequests, r.cbstate)
       THEN /\ Respond(p, r, httpError("Invalid or expired authorization request",
                                       StatusBadRequest))
            /\ loc' = loc
       ELSE /\ Goto(p, "cb_delete")
            /\ loc' = [loc EXCEPT ![p].rec = <<authRequests[r.cbstate]>>]
    /\ UNCHANGED <<storeVars, now, ticks, nextTok, accepted, outside>>

\* DeleteAuthRequest, expiry, ExchangeCode, GetUser, isUserAuthorized
CallbackDeleteAuthRequest(p) ==
    /\ pc[p] = "cb_delete"
    /\ authRequests' = DeleteAuthRequest(authRequests, req[p].cbstate)
    /\ LET authReq == loc[p].rec[1]
           up == req[p].up
       IN IF After(now, authReq.ExpiresAt)
          THEN Finish(p, authError(authReq.RedirectURI, "access_denied",
                          "Authorization request expired", authReq.State))
          ELSE IF ~up.exchange
          THEN Finish(p, authError(authReq.RedirectURI, "server_error",
                          "Failed to authenticate with GitHub", authReq.State))
          ELSE IF ~up.user
          THEN Finish(p, authError(authReq.RedirectURI, "server_error",
                          "Failed to get user info", authReq.State))
          ELSE IF ~isUserAuthorized(Allowlist, up.login, up.orgs, up.teams)
          THEN Finish(p, authError(authReq.RedirectURI, "access_denied",
                          "User not authorized", authReq.State))
          ELSE Goto(p, "cb_getuser")
    /\ UNCHANGED <<clients, authCodes, accessTokens, refreshTokens, users,
                   usersByGitHub, now, ticks, nextTok, req, loc, accepted, outside>>

\* GetUserByGitHubLogin; an unknown login gets a new User with a fresh id
CallbackGetUser(p) ==
    /\ pc[p] = "cb_getuser"
    /\ LET existingUser == GetUserByGitHubLogin(users, usersByGitHub, req[p].up.login)
       IN IF existingUser # <<>>
          THEN /\ loc' = [loc EXCEPT ![p].user = existingUser]
               /\ nextTok' = nextTok
          ELSE /\ nextTok <= budget
               /\ loc' = [loc EXCEPT ![p].user =
                             <<[ID |-> nextTok, GitHubLogin |-> req[p].up.login]>>]
               /\ nextTok' = nextTok + 1
    /\ Goto(p, "cb_storeuser")
    /\ UNCHANGED <<storeVars, now, ticks, req, accepted, outside>>

\* StoreUser: the record and its login index in one transaction
CallbackStoreUser(p) ==
    /\ pc[p] = "cb_storeuser"
    /\ LET user == loc[p].user[1]
       IN /\ users' = Put(users, user.ID, user)
          /\ usersByGitHub' = Put(usersByGitHub, user.GitHubLogin, user.ID)
    /\ Goto(p, "cb_code")
    /\ UNCHANGED <<clients, authRequests, authCodes, accessTokens, refreshTokens,
                   now, ticks, nextTok, req, loc, accepted, outside>>

\* GenerateAuthorizationCode, redirect to the client with code and state
CallbackGenerateAuthorizationCode(p) ==
    /\ pc[p] = "cb_code"
    /\ nextTok <= budget
    /\ LET authReq == loc[p].rec[1]
           code == nextTok
       IN /\ authCodes' = StoreAuthCode(authCodes,
                [Code |-> code, ClientID |-> authReq.ClientID,
                 RedirectURI |-> authReq.RedirectURI, Scope |-> authReq.Scope,
                 CodeChallenge |-> authReq.CodeChallenge,
                 CodeChallengeMethod |-> authReq.CodeChallengeMethod,
                 Resource |-> authReq.Resource, UserID |-> loc[p].user[1].ID,
                 ExpiresAt |-> now + AuthCodeTTL])
          /\ Finish(p, [NoResp EXCEPT !.status = StatusFound,
                                      !.location = authReq.RedirectURI,
                                      !.code = code, !.state = authReq.State])
          /\ minted' = Put(minted, code,
                Origin("code", authReq.ID, authReq.ClientID, loc[p].user[1].ID,
                       authReq.Scope, authReq.Resource))
    /\ nextTok' = nextTok + 1
    /\ UNCHANGED <<clients, authRequests, accessTokens, refreshTokens, users,
                   usersByGitHub, now, ticks, req, loc, accepted, fixed>>

(***************************************************************************)
(* handleToken, grant authorization_code.                                  *)
(***************************************************************************)
\* AuthCodeGrantChecks without the resource check
AuthCodeGrantChecksNoResource(authCode, r, t) ==
    IF After(t, authCode.ExpiresAt)
    THEN tokenError("invalid_grant", "Authorization code expired")
    ELSE IF authCode.ClientID # r.client_id
    THEN tokenError("invalid_grant", "Client ID mismatch")
    ELSE IF authCode.RedirectURI # r.redirect_uri
    THEN tokenError("invalid_grant", "Redirect URI mismatch")
    ELSE LET pkce == ValidatePKCE(r.code_verifier, authCode.CodeChallenge,
                                  authCode.CodeChallengeMethod)
         IN IF pkce # "ok" THEN tokenError("invalid_grant", pkce)
            ELSE NoResp

\* AuthCodeGrantChecks without the client id check
AuthCodeGrantChecksNoClient(authCode, r, t) ==
    IF After(t, authCode.ExpiresAt)
    THEN tokenError("invalid_grant", "Authorization code expired")
    ELSE IF authCode.RedirectURI # r.redirect_uri
    THEN tokenError("invalid_grant", "Redirect URI mismatch")
    ELSE LET pkce == ValidatePKCE(r.code_verifier, authCode.CodeChallenge,
                                  authCode.CodeChallengeMethod)
         IN IF pkce # "ok" THEN tokenError("invalid_grant", pkce)
            ELSE IF r.resource # "" /\ authCode.Resource # ""
                    /\ r.resource # authCode.Resource
            THEN tokenError("invalid_target", "Resource mismatch")
            ELSE NoResp

\* the checks of handleAuthCodeGrant on the code it read, at time t: the
\* error response of the first check that fails, NoResp when all pass
AuthCodeGrantChecks(authCode, r, t) ==
    IF After(t, authCode.ExpiresAt)
    THEN tokenError("invalid_grant", "Authorization code expired")
    ELSE IF authCode.ClientID # r.client_id
    THEN tokenError("invalid_grant", "Client ID mismatch")
    ELSE IF authCode.RedirectURI # r.redirect_uri
    THEN tokenError("invalid_grant", "Redirect URI mismatch")
    ELSE LET pkce == ValidatePKCE(r.code_verifier, authCode.CodeChallenge,
                                  authCode.CodeChallengeMethod)
         IN IF pkce # "ok" THEN tokenError("invalid_grant", pkce)
            ELSE IF r.resource # "" /\ authCode.Resource # ""
                    /\ r.resource # authCode.Resource
            THEN tokenError("invalid_target", "Resource mismatch")
            ELSE NoResp

\* GetAuthCode
GrantGetAuthCode(p, r) ==
    /\ Accept(p, r, "token_code")
    /\ IF ~Has(authCodes, r.code)
       THEN /\ Respond(p, r, tokenError("invalid_grant", "Invalid authorization code"))
            /\ loc' = loc
       ELSE /\ Goto(p, "tc_delete")
            /\ loc' = [loc EXCEPT ![p].rec = <<authCodes[r.code]>>]
    /\ UNCHANGED <<storeVars, now, ticks, nextTok, accepted, outside>>

\* DeleteAuthCode, then the checks on the code that was read
GrantDeleteAuthCode(p) ==
    /\ pc[p] = "tc_delete"
    /\ authCodes' = DeleteAuthCode(authCodes, req[p].code)
    /\ LET err == AuthCodeGrantChecks(loc[p].rec[1], req[p], now)
       IN IF err # NoResp THEN Finish(p, err) ELSE Goto(p, "gen_access")
    /\ UNCHANGED <<clients, authRequests, accessTokens, refreshTokens, users,
                   usersByGitHub, now, ticks, nextTok, req, loc, accepted, outside>>

(***************************************************************************)
(* handleToken, grant refresh_token.                                       *)
(***************************************************************************)
\* a grant that does not compare the client id
RefreshGetRefreshTokenAnyClient(p, r) ==
    /\ Accept(p, r, "token_refresh")
    /\ IF ~Has(refreshTokens, r.refresh_token)
       THEN /\ Respond(p, r, tokenError("invalid_grant", "Invalid refresh token"))
            /\ loc' = loc
       ELSE LET refreshToken == refreshTokens[r.refresh_token]
            IN /\ loc' = [loc EXCEPT ![p].rec = <<refreshToken>>]
               /\ IF After(now, refreshToken.ExpiresAt)
                  THEN Goto(p, "rt_expired")
                  ELSE Goto(p, "rt_delete")
    /\ UNCHANGED <<storeVars, now, ticks, nextTok, accepted, outside>>

\* GetRefreshToken, expiry, client id
RefreshGetRefreshToken(p, r) ==
    /\ Accept(p, r, "token_refresh")
    /\ IF ~Has(refreshTokens, r.refresh_token)
       THEN /\ Respond(p, r, tokenError("invalid_grant", "Invalid refresh token"))
            /\ loc' = loc
       ELSE LET refreshToken == refreshTokens[r.refresh_token]
            IN /\ loc' = [loc EXCEPT ![p].rec = <<refreshToken>>]
               /\ IF After(now, refreshToken.ExpiresAt)
                  THEN Goto(p, "rt_expired")
                  ELSE IF refreshToken.ClientID # r.client_id
                  THEN Respond(p, r, tokenError("invalid_grant", "Client ID mismatch"))
                  ELSE Goto(p, "rt_delete")
    /\ UNCHANGED <<storeVars, now, ticks, nextTok, accepted, outside>>

\* DeleteRefreshToken of an expired token
RefreshDeleteExpired(p) ==
    /\ pc[p] = "rt_expired"
    /\ refreshTokens' = DeleteRefreshToken(refreshTokens, req[p].refresh_token)
    /\ Finish(p, tokenError("invalid_grant", "Refresh token expired"))
    /\ UNCHANGED <<clients, authRequests, authCodes, accessTokens, users,
                   usersByGitHub, now, ticks, nextTok, req, loc, accepted, outside>>

\* DeleteRefreshToken (rotation)
RefreshDeleteRefreshToken(p) ==
    /\ pc[p] = "rt_delete"
    /\ refreshTokens' = DeleteRefreshToken(refreshTokens, req[p].refresh_token)
    /\ Goto(p, "gen_access")
    /\ UNCHANGED <<clients, authRequests, authCodes, accessTokens, users,
                   usersByGitHub, now, ticks, nextTok, req, loc, accepted, outside>>

(***************************************************************************)
(* Token service, as both grants call it: the new tokens carry the user,   *)
(* scope and resource of the redeemed record and the request's client id.  *)
(***************************************************************************)
GenerateAccessToken(p) ==
    /\ pc[p] = "gen_access"
    /\ nextTok <= budget
    /\ LET from == loc[p].rec[1]
           accessToken == [Token |-> nextTok, ClientID |-> req[p].client_id,
                           UserID |-> from.UserID, Scope |-> from.Scope,
                           Resource |-> from.Resource,
                           ExpiresAt |-> now + AccessTokenTTL]
       IN /\ accessTokens' = StoreAccessToken(accessTokens, accessToken)
          /\ loc' = [loc EXCEPT ![p].accessToken = <<accessToken>>]
          /\ minted' = Put(minted, accessToken.Token,
                Origin("access", Credential(req[p]), accessToken.ClientID,
                       accessToken.UserID, accessToken.Scope, accessToken.Resource))
    /\ nextTok' = nextTok + 1
    /\ Goto(p, "gen_refresh")
    /\ UNCHANGED <<clients, authRequests, authCodes, refreshTokens, users,
                   usersByGitHub, now, ticks, req, accepted, fixed>>

\* int(d.Seconds()) for the duration d of secs seconds less frac parts of a
\* second: the conversion to int truncates toward zero
WholeSeconds(secs, frac) ==
    LET d == secs * ClockResolution - frac
    IN IF d >= 0 THEN d \div ClockResolution ELSE -((-d) \div ClockResolution)

\* GenerateRefreshToken, then the TokenResponse; frac is the part of a
\* second that has passed since GenerateAccessToken read the clock, over
\* the whole seconds the clock has advanced.  The refresh_token grant
\* comes here with a nil access token when GenerateAccessToken failed, and
\* building the response dereferences it.
GenerateRefreshToken(p) ==
    /\ pc[p] = "gen_refresh"
    /\ nextTok <= budget
    /\ \E frac \in 0..(ClockResolution - 1) :
       LET from == loc[p].rec[1]
           accessToken == loc[p].accessToken[1]
           refreshToken == [Token |-> nextTok, ClientID |-> req[p].client_id,
                            UserID |-> from.UserID, Scope |-> from.Scope,
                            Resource |-> from.Resource,
                            ExpiresAt |-> now + RefreshTokenTTL]
       IN /\ refreshTokens' = StoreRefreshToken(refreshTokens, refreshToken)
          /\ Finish(p, IF loc[p].accessToken = <<>>
                        THEN [NoResp EXCEPT !.panic = TRUE,
                                            !.desc = "nil pointer dereference"]
                        ELSE [NoResp EXCEPT !.status = StatusOK,
                                      !.access_token = accessToken.Token,
                                      !.refresh_token = refreshToken.Token,
                                      !.expires_in =
                                         WholeSeconds(accessToken.ExpiresAt - now, frac),
                                      !.scope = accessToken.Scope])
          /\ minted' = Put(minted, refreshToken.Token,
                Origin("refresh", Credential(req[p]), refreshToken.ClientID,
                       refreshToken.UserID, refreshToken.Scope, refreshToken.Resource))
    /\ nextTok' = nextTok + 1
    /\ UNCHANGED <<clients, authRequests, authCodes, accessTokens, users,
                   usersByGitHub, now, ticks, req, loc, accepted, fixed>>

(***************************************************************************)
(* The Store writes of the auth flow when the write returns an error: the  *)
(* bucket is unchanged and loc.err names the write that failed.            *)
(***************************************************************************)
\* handleAuthorize: the result of StoreAuthRequest is discarded
AuthorizeStoreAuthRequestFails(p) ==
    /\ pc[p] = "authz_store"
    /\ nextTok <= budget
    /\ LET r == req[p]
           authRequestID == nextTok
       IN /\ Finish(p, [NoResp EXCEPT !.status = StatusFound,
                                      !.location = "github",
                                      !.upstate = authRequestID])
          /\ minted' = Put(minted, authRequestID,
                Origin("request", Garbage, r.client_id, Garbage, r.scope, r.resource))
    /\ loc' = [loc EXCEPT ![p].err = "StoreAuthRequest"]
    /\ nextTok' = nextTok + 1
    /\ accepted' = accepted + 1
    /\ UNCHANGED <<storeVars, now, ticks, req, fixed>>

\* handleGitHubCallback: the result of StoreUser is discarded
CallbackStoreUserFails(p) ==
    /\ pc[p] = "cb_storeuser"
    /\ loc' = [loc EXCEPT ![p].err = "StoreUser"]
    /\ Goto(p, "cb_code")
    /\ UNCHANGED <<storeVars, now, ticks, nextTok, req, accepted, outside>>

\* GenerateAccessToken returns (nil, err): handleAuthCodeGrant answers
\* server_error, handleRefreshTokenGrant discards the error and goes on
GenerateAccessTokenFails(p) ==
    /\ pc[p] = "gen_access"
    /\ nextTok <= budget
    /\ loc' = [loc EXCEPT ![p].err = "StoreAccessToken"]
    /\ IF req[p].kind = "token_code"
       THEN Finish(p, tokenError("server_error", "Failed to generate access token"))
       ELSE Goto(p, "gen_refresh")
    /\ nextTok' = nextTok + 1
    /\ UNCHANGED <<storeVars, now, ticks, req, accepted, outside>>

\* GenerateRefreshToken returns (nil, err): handleAuthCodeGrant answers
\* server_error, handleRefreshTokenGrant discards the error and
\* dereferences a nil token while it builds the response
GenerateRefreshTokenFails(p) ==
    /\ pc[p] = "gen_refresh"
    /\ nextTok <= budget
    /\ loc' = [loc EXCEPT ![p].err = "StoreRefreshToken"]
    /\ IF req[p].kind = "token_code"
       THEN Finish(p, tokenError("server_error", "Failed to generate refresh token"))
       ELSE Finish(p, [NoResp EXCEPT !.panic = TRUE,
                                     !.desc = "nil pointer dereference"])
    /\ nextTok' = nextTok + 1
    /\ UNCHANGED <<storeVars, now, ticks, req, accepted, outside>>

(***************************************************************************)
(* The request multiplexer.  Every pattern registered on the mux is a      *)
(* fixed path with no trailing slash, and http.ServeMux serves such a      *)
(* pattern for the path equal to it only; a path that no pattern matches   *)
(* is answered 404 by the mux itself.                                      *)
(***************************************************************************)
Patterns ==
    {"/.well-known/oauth-authorization-server",
     "/.well-known/oauth-protected-resource", "/register", "/authorize",
     "/token", "/callback", "/admin/clients", "/mcp"}

\* the pattern that serves the path, "" when none does
ServeMux(path) == IF path.sub = <<>> /\ path.route \in Patterns THEN path.route ELSE ""

\* http.NotFound, as the mux answers a path without a pattern
MuxNotFound(p, r) ==
    /\ Accept(p, r, r.kind)
    /\ r.kind \in {"register", "admin"}
    /\ ServeMux(r.path) = ""
    /\ Respond(p, r, httpError("404 page not found", StatusNotFound))
    /\ UNCHANGED <<storeVars, now, ticks, nextTok, loc, accepted, outside>>

(***************************************************************************)
(* The bearer middleware.                                                  *)
(***************************************************************************)
\* ValidateAccessToken without the expiry check
ValidateAccessTokenNoExpiry(tokens, token, t) ==
    IF ~Has(tokens, token) THEN "token not found" ELSE "ok"

\* TokenService.ValidateAccessToken: "ok" or the error
ValidateAccessToken(tokens, token, t) ==
    IF ~Has(tokens, token) THEN "token not found"
    ELSE IF After(t, tokens[token].ExpiresAt) THEN "token expired"
    ELSE "ok"

\* the handlers registered behind svc.Middleware: the protected resource
\* and the admin endpoint
Wrapped(r) ==
    \/ r.kind = "protected"
    \/ r.kind = "admin" /\ ServeMux(r.path) = "/admin/clients"

\* Authorization header, ValidateAccessToken
MiddlewareValidateAccessToken(p, r) ==
    /\ Accept(p, r, r.kind)
    /\ Wrapped(r)
    /\ LET authHeader == r.auth
           err == ValidateAccessToken(accessTokens, authHeader.token, now)
       IN IF ~authHeader.present
          THEN /\ Respond(p, r, unauthorized("Missing Authorization header"))
               /\ loc' = loc
          ELSE IF authHeader.parts # 2 \/ ToLower(authHeader.scheme) # "bearer"
          THEN /\ Respond(p, r, unauthorized("Invalid Authorization header format"))
               /\ loc' = loc
          ELSE IF err = "token expired"
          THEN /\ Respond(p, r, unauthorized("Access token expired"))
               /\ loc' = loc
          ELSE IF err # "ok"
          THEN /\ Respond(p, r, unauthorized("Invalid access token"))
               /\ loc' = loc
          ELSE /\ Goto(p, "mw_getuser")
               /\ loc' = [loc EXCEPT ![p].rec = <<accessTokens[authHeader.token]>>]
    /\ UNCHANGED <<storeVars, now, ticks, nextTok, accepted, outside>>

\* GetUser, then next.ServeHTTP
MiddlewareGetUser(p) ==
    /\ pc[p] = "mw_getuser"
    /\ LET accessToken == loc[p].rec[1]
       IN IF ~Has(users, accessToken.UserID)
          THEN /\ Finish(p, unauthorized("User not found"))
               /\ loc' = loc
          ELSE /\ IF req[p].kind = "admin" THEN Goto(p, "admin")
                  ELSE Finish(p, [NoResp EXCEPT !.status = StatusOK, !.next = TRUE])
               /\ loc' = [loc EXCEPT ![p].user = <<users[accessToken.UserID]>>]
    /\ UNCHANGED <<storeVars, now, ticks, nextTok, req, accepted, outside>>

(***************************************************************************)
(* handleClientRegistration (dynamic client registration).                 *)
(***************************************************************************)
\* the redirect_uris a JSON body decodes to: none when the member is absent
DecodedRedirectURIs(body) ==
    IF body.redirect_uris = <<>> THEN {} ELSE body.redirect_uris[1]

\* ClientRegistrationChecks without the redirect_uris check
ClientRegistrationChecksNoURIs(r) ==
    IF r.method # "POST" THEN httpError("Method not allowed", StatusMethodNotAllowed)
    ELSE IF ~r.body.json_ok
    THEN registrationError("invalid_client_metadata", "Invalid JSON")
    ELSE NoResp

\* the checks of handleClientRegistration: the error response of the first
\* check that fails, NoResp when all pass
ClientRegistrationChecks(r) ==
    IF r.method # "POST" THEN httpError("Method not allowed", StatusMethodNotAllowed)
    ELSE IF ~r.body.json_ok
    THEN registrationError("invalid_client_metadata", "Invalid JSON")
    ELSE IF DecodedRedirectURIs(r.body) = {}
    THEN registrationError("invalid_redirect_uri", "redirect_uris is required")
    ELSE NoResp

\* the whole handler: checks, GenerateClientCredentials, StoreClient, 201
handleClientRegistration(p, r) ==
    /\ Accept(p, r, "register")
    /\ ServeMux(r.path) = "/register"
    /\ LET err == ClientRegistrationChecks(r)
           cred == GenerateClientCredentials(nextTok)
       IN IF err # NoResp
          THEN /\ Respond(p, r, err)
               /\ UNCHANGED <<clients, nextTok>>
          ELSE /\ nextTok + 1 <= budget
               /\ clients' = StoreClient(clients,
                     [ClientID |-> cred.clientID,
                      ClientSecret |-> hashSecret(cred.clientSecret),
                      RedirectURIs |-> DecodedRedirectURIs(r.body),
                      IsStatic |-> FALSE])
               /\ nextTok' = nextTok + 2
               /\ Respond(p, r, [NoResp EXCEPT
                                   !.status = StatusCreated,
                                   !.client_id = cred.clientID,
                                   !.client_secret = cred.clientSecret,
                                   !.redirect_uris = DecodedRedirectURIs(r.body)])
    /\ UNCHANGED <<authRequests, authCodes, accessTokens, refreshTokens, users,
                   usersByGitHub, now, ticks, loc, accepted, outside>>

(***************************************************************************)
(* handleAdminClients (static client management), behind the middleware.   *)
(***************************************************************************)
\* a client as the admin API shows it: the secret is left out
StaticClientResponse(client) ==
    [ClientID |-> client.ClientID, ClientSecret |-> "",
     RedirectURIs |-> client.RedirectURIs]

\* the client id handleAdminClients takes from the path: what follows the
\* prefix "/admin/clients/", "" when the path does not have it
PathClientID(path) ==
    IF path.route = "/admin/clients" /\ path.sub # <<>> THEN path.sub[1] ELSE ""

\* handleCreateStaticClient: [resp, clients] when generateSecureToken
\* returns n and n + 1
handleCreateStaticClient(cs, body, n) ==
    IF ~body.json_ok
    THEN [resp |-> httpError("Invalid JSON", StatusBadRequest), clients |-> cs]
    ELSE IF body.client_name = ""
    THEN [resp |-> httpError("client_name is required", StatusBadRequest),
          clients |-> cs]
    ELSE IF DecodedRedirectURIs(body) = {}
    THEN [resp |-> httpError("redirect_uris is required", StatusBadRequest),
          clients |-> cs]
    ELSE LET cred == GenerateClientCredentials(n)
         IN [resp |-> [NoResp EXCEPT !.status = StatusCreated,
                                     !.client_id = cred.clientID,
                                     !.client_secret = cred.clientSecret,
                                     !.redirect_uris = DecodedRedirectURIs(body)],
             clients |-> StoreClient(cs,
                 [ClientID |-> cred.clientID,
                  ClientSecret |-> hashSecret(cred.clientSecret),
                  RedirectURIs |-> DecodedRedirectURIs(body),
                  IsStatic |-> TRUE])]

\* handleListStaticClients: the static clients, without their secrets
handleListStaticClients(cs) ==
    [NoResp EXCEPT !.status = StatusOK,
                   !.clients = {StaticClientResponse(c) :
                                   c \in {x \in ListClients(cs) : x.IsStatic}}]

\* handleGetStaticClient
handleGetStaticClient(cs, clientID) ==
    IF ~Has(cs, clientID) THEN httpError("Client not found", StatusNotFound)
    ELSE IF ~cs[clientID].IsStatic
    THEN httpError("Not a static client", StatusForbidden)
    ELSE [NoResp EXCEPT !.status = StatusOK, !.client_id = clientID,
                        !.redirect_uris = cs[clientID].RedirectURIs]

\* handleDeleteStaticClient: [resp, clients]
handleDeleteStaticClient(cs, clientID) ==
    IF ~Has(cs, clientID)
    THEN [resp |-> httpError("Client not found", StatusNotFound), clients |-> cs]
    ELSE IF ~cs[clientID].IsStatic
    THEN [resp |-> httpError("Cannot delete non-static client", StatusForbidden),
          clients |-> cs]
    ELSE [resp |-> [NoResp EXCEPT !.status = StatusNoContent],
          clients |-> DeleteClient(cs, clientID)]

\* handleAdminClients, called by the middleware for the pattern
\* "/admin/clients": the client id of the path, then the method
handleAdminClients(p) ==
    /\ pc[p] = "admin"
    /\ LET r == req[p]
           clientID == PathClientID(r.path)
           created == handleCreateStaticClient(clients, r.body, nextTok)
           deleted == handleDeleteStaticClient(clients, clientID)
       IN IF r.method = "POST"
          THEN /\ created.clients # clients => nextTok + 1 <= budget
               /\ clients' = created.clients
               /\ nextTok' = IF created.clients # clients THEN nextTok + 2
                             ELSE nextTok
               /\ Finish(p, created.resp)
          ELSE IF r.method = "GET"
          THEN /\ Finish(p, IF clientID # ""
                            THEN handleGetStaticClient(clients, clientID)
                            ELSE handleListStaticClients(clients))
               /\ UNCHANGED <<clients, nextTok>>
          ELSE IF r.method = "DELETE"
          THEN /\ clients' = IF clientID # "" THEN deleted.clients ELSE clients
               /\ Finish(p, IF clientID # "" THEN deleted.resp
                            ELSE httpError("Client ID required", StatusBadRequest))
               /\ nextTok' = nextTok
          ELSE /\ Finish(p, httpError("Method not allowed", StatusMethodNotAllowed))
               /\ UNCHANGED <<clients, nextTok>>
    /\ UNCHANGED <<authRequests, authCodes, accessTokens, refreshTokens, users,
                   usersByGitHub, now, ticks, req, loc, accepted, outside>>

(***************************************************************************)
(* The Streamable HTTP transport (package transport): the SessionManager   *)
(* and handleMCP.  The sync.Map operations Store, Load and Delete and      *)
(* close(session.Done) are the atomic steps; a handler may be preempted    *)
(* between any two of them.  A request carries the principal the bearer    *)
(* middleware put in its context, none when the transport has no auth      *)
(* service.  A nil *User is "" and a handler that panics answers nothing.  *)
(***************************************************************************)
\* what no step of the transport changes
sessionFrame ==
    <<storeVars, now, ticks, budget, accepted, presented, grants, minted, pk, az,
      authService, stopCh, sessionStore>>

\* the Session that CreateSession allocates
NewSession(id) ==
    [ID |-> id, User |-> "", ClientID |-> "", Done |-> "open", Response |-> <<>>]

\* a lookup that finds no session
GetSessionNever(sm, id) == FALSE

\* SessionManager.GetSession: the ok result
GetSession(sm, id) == id \in sm

\* a creation that attaches nothing
AttachNothing(session, enabled, principal) == session

\* a creation that attaches the user alone
AttachUserOnly(session, enabled, principal) ==
    IF enabled /\ principal # <<>>
    THEN [session EXCEPT !.User = principal[1].user]
    ELSE session

\* handlePost, "Attach authenticated user to session if auth is enabled"
PostAttach(session, enabled, principal) ==
    IF enabled /\ principal # <<>>
    THEN [session EXCEPT !.User = principal[1].user,
                         !.ClientID = principal[1].client]
    ELSE session

\* handleGet, "Attach authenticated user to session if auth is enabled"
GetAttach(session, enabled, principal) ==
    IF enabled /\ principal # <<>>
    THEN [session EXCEPT !.User = principal[1].user,
                         !.ClientID = principal[1].client]
    ELSE session

\* the first event of a new stream
EndpointEvent(id) == [event |-> "endpoint", data |-> id]

\* the keepalive comment ": ping"
PingEvent == [event |-> "ping", data |-> NoSessionID]

\* the response of a handler that wrote a JSON-RPC response
RPCResponse(id) ==
    [NoResp EXCEPT !.status = StatusOK, !.desc = "response", !.session_id = id]

\* the response so far of a handler that has started an event stream
StreamResponse(id, events) ==
    [NoResp EXCEPT !.status = StatusOK, !.desc = "event-stream",
                   !.session_id = id, !.events = events]

\* SessionManager.CreateSession by handler p serving q: generateUUID, Store
CreateSession(p, q, label) ==
    /\ nextTok <= budget
    /\ LET id == generateUUID(nextTok)
       IN /\ heap' = Put(heap, id, NewSession(id))
          /\ sessions' = sessions \cup {id}
          /\ origin' = Put(origin, id, [via |-> q.method, principal |-> q.principal])
          /\ loc' = [loc EXCEPT ![p].session = id]
    /\ nextTok' = nextTok + 1
    /\ Goto(p, label)

\* handlePost up to its first operation on the session map
PostStart(p, r) ==
    /\ Accept(p, r, "mcp")
    /\ r.method = "POST"
    /\ IF ~r.body.json_ok
       THEN /\ Respond(p, r, httpError("Invalid JSON", StatusBadRequest))
            /\ UNCHANGED <<nextTok, loc, sessions, heap, origin>>
       ELSE IF r.rpc = "initialize" /\ r.session_id = NoSessionID
       THEN CreateSession(p, r, "post_attach")
       ELSE IF r.rpc = "initialize" /\ GetSession(sessions, r.session_id)
       THEN /\ Respond(p, r, RPCResponse(r.session_id))
            /\ UNCHANGED <<nextTok, loc, sessions, heap, origin>>
       ELSE IF r.rpc = "initialize"
       THEN /\ Goto(p, "post_create")
            /\ UNCHANGED <<nextTok, loc, sessions, heap, origin>>
       ELSE /\ Respond(p, r,
                  IF r.session_id = NoSessionID
                  THEN httpError("Missing Mcp-Session-Id header", StatusBadRequest)
                  ELSE IF ~GetSession(sessions, r.session_id)
                  THEN httpError("Session not found", StatusNotFound)
                  ELSE RPCResponse(NoSessionID))
            /\ UNCHANGED <<nextTok, loc, sessions, heap, origin>>
    /\ UNCHANGED sessionFrame

\* handlePost: CreateSession after the lookup of an unknown session id
PostCreate(p) ==
    /\ pc[p] = "post_create"
    /\ CreateSession(p, req[p], "post_attach")
    /\ UNCHANGED <<req, sessionFrame>>

\* handlePost: the principal is attached, the message is handled and the
\* response is written with the Mcp-Session-Id header
PostInitialize(p) ==
    /\ pc[p] = "post_attach"
    /\ LET id == loc[p].session
       IN /\ heap' = [heap EXCEPT ![id] =
                         PostAttach(heap[id], authService, req[p].principal)]
          /\ Finish(p, RPCResponse(id))
    /\ UNCHANGED <<nextTok, req, loc, sessions, origin, sessionFrame>>

\* handleGet up to its first operation on the session map; for a known
\* session the stream headers are written
GetStart(p, r) ==
    /\ Accept(p, r, "mcp")
    /\ r.method = "GET"
    /\ IF r.session_id = NoSessionID
       THEN CreateSession(p, r, "get_attach")
       ELSE IF ~GetSession(sessions, r.session_id)
       THEN /\ Respond(p, r, httpError("Session not found", StatusNotFound))
            /\ UNCHANGED <<nextTok, loc, sessions, heap, origin>>
       ELSE /\ pc' = [pc EXCEPT ![p] = "sse"]
            /\ resp' = [resp EXCEPT ![p] = StreamResponse(r.session_id, <<>>)]
            /\ loc' = [loc EXCEPT ![p].session = r.session_id]
            /\ UNCHANGED <<nextTok, sessions, heap, origin, presented, grants>>
    /\ UNCHANGED sessionFrame

\* handleGet for a new session: the principal is attached, the headers are
\* written and flushed, then the endpoint event
GetEstablish(p) ==
    /\ pc[p] = "get_attach"
    /\ LET id == loc[p].session
       IN /\ heap' = [heap EXCEPT ![id] =
                         GetAttach(heap[id], authService, req[p].principal)]
          /\ resp' = [resp EXCEPT ![p] = StreamResponse(id, <<EndpointEvent(id)>>)]
    /\ pc' = [pc EXCEPT ![p] = "sse"]
    /\ UNCHANGED <<nextTok, req, loc, sessions, origin, presented, grants,
                   sessionFrame>>

\* the events the select of the stream loop can write: a keepalive when the
\* ticker fires, the head of session.Response when a message is queued
ReadyEvents(session, written) ==
    (IF Cardinality({i \in 1..Len(written) : written[i] = PingEvent}) < MaxPings
     THEN {PingEvent} ELSE {})
    \cup (IF session.Response # <<>>
          THEN {[event |-> "message", data |-> Head(session.Response)]} ELSE {})

\* the stream loop writes an event
StreamWrite(p) ==
    /\ pc[p] = "sse"
    /\ LET id == loc[p].session
       IN \E ev \in ReadyEvents(heap[id], resp[p].events) :
            /\ resp' = [resp EXCEPT ![p].events = Append(@, ev)]
            /\ heap' = IF ev.event = "message"
                       THEN [heap EXCEPT ![id].Response = Tail(@)]
                       ELSE heap
    /\ UNCHANGED <<pc, nextTok, req, loc, sessions, origin, presented, grants,
                   sessionFrame>>

\* the stream loop returns: the client went away (r.Context().Done())
StreamClientGone(p) ==
    /\ pc[p] = "sse"
    /\ pc' = [pc EXCEPT ![p] = "done"]
    /\ UNCHANGED <<nextTok, req, loc, resp, sessions, heap, origin, presented,
                   grants, sessionFrame>>

\* a stream loop that does not look at session.Done
StreamIgnoresDone(p) ==
    /\ pc[p] = "sse"
    /\ heap[loc[p].session].Done = "closed"
    /\ UNCHANGED vars

\* the stream loop returns: session.Done is closed
StreamSessionDone(p) ==
    /\ pc[p] = "sse"
    /\ heap[loc[p].session].Done = "closed"
    /\ pc' = [pc EXCEPT ![p] = "done"]
    /\ resp' = [resp EXCEPT ![p].desc = "session ended"]
    /\ UNCHANGED <<nextTok, req, loc, sessions, heap, origin, presented, grants,
                   sessionFrame>>

\* the client of the stream goes away: the context of the request is
\* cancelled
ClientDisconnects(p) ==
    /\ pc[p] = "sse"
    /\ loc[p].ctx = "live"
    /\ loc' = [loc EXCEPT ![p].ctx = "cancelled"]
    /\ UNCHANGED <<pc, nextTok, req, resp, sessions, heap, origin, sessionFrame>>

\* the stream loop returns: case <-r.Context().Done()
StreamContextDone(p) ==
    /\ pc[p] = "sse"
    /\ loc[p].ctx = "cancelled"
    /\ pc' = [pc EXCEPT ![p] = "done"]
    /\ resp' = [resp EXCEPT ![p].desc = "closed by client"]
    /\ UNCHANGED <<nextTok, req, loc, sessions, heap, origin, sessionFrame>>

\* the stream loop returns: case <-t.stopCh
StreamStopped(p) ==
    /\ pc[p] = "sse"
    /\ stopCh = "closed"
    /\ pc' = [pc EXCEPT ![p] = "done"]
    /\ UNCHANGED <<nextTok, req, loc, resp, sessions, heap, origin, sessionFrame>>

\* HTTPTransport.Stop: close(t.stopCh).  Closing the server ends the
\* connections, which the handlers see as ClientDisconnects.
Stop ==
    /\ stopCh = "open"
    /\ stopCh' = "closed"
    /\ UNCHANGED <<storeVars, now, ticks, nextTok, budget, procVars, accepted,
                   presented, grants, minted, pk, az, authService, sessions, heap,
                   origin, sessionStore>>

\* the message events in what a stream has written
Messages(written) ==
    Cardinality({i \in 1..Len(written) : written[i].event = "message"})

\* a holder of the Session sends a server-initiated message on
\* session.Response, the buffered channel the stream loop receives from;
\* the transport itself never sends on it
Enqueue(id) ==
    /\ id \in sessions
    /\ Len(heap[id].Response) < ResponseBuffer
    /\ \A p \in Procs :
          Messages(resp[p].events) + Len(heap[id].Response) < MaxMessages
    /\ heap' = [heap EXCEPT ![id].Response = Append(@, "notification")]
    /\ UNCHANGED <<procVars, nextTok, sessions, origin, sessionFrame>>

\* handleDelete up to the Load of RemoveSession
DeleteStart(p, r) ==
    /\ Accept(p, r, "mcp")
    /\ r.method = "DELETE"
    /\ IF r.session_id = NoSessionID
       THEN /\ Respond(p, r, httpError("Missing Mcp-Session-Id header",
                                       StatusBadRequest))
            /\ loc' = loc
       ELSE IF ~GetSession(sessions, r.session_id)
       THEN /\ Respond(p, r, [NoResp EXCEPT !.status = StatusOK])
            /\ loc' = loc
       ELSE /\ Goto(p, "rm_close")
            /\ loc' = [loc EXCEPT ![p].session = r.session_id]
    /\ UNCHANGED <<nextTok, sessions, heap, origin, sessionFrame>>

\* RemoveSession: close(session.Done); closing a closed channel panics
RemoveSessionClose(p) ==
    /\ pc[p] = "rm_close"
    /\ LET id == loc[p].session
       IN IF heap[id].Done = "closed"
          THEN /\ Finish(p, [NoResp EXCEPT !.panic = TRUE,
                                           !.desc = "close of closed channel"])
               /\ heap' = heap
          ELSE /\ heap' = [heap EXCEPT ![id].Done = "closed"]
               /\ Goto(p, "rm_delete")
    /\ UNCHANGED <<nextTok, req, loc, sessions, origin, sessionFrame>>

\* RemoveSession: sessions.Delete, then handleDelete answers 200
RemoveSessionDelete(p) ==
    /\ pc[p] = "rm_delete"
    /\ sessions' = sessions \ {loc[p].session}
    /\ Finish(p, [NoResp EXCEPT !.status = StatusOK])
    /\ UNCHANGED <<nextTok, req, loc, heap, origin, sessionFrame>>

\* handleMCP for the other methods
OtherMethod(p, r) ==
    /\ Accept(p, r, "mcp")
    /\ r.method \notin {"POST", "GET", "DELETE"}
    /\ Respond(p, r, IF r.method = "OPTIONS" THEN [NoResp EXCEPT !.status = StatusOK]
                     ELSE httpError("Method not allowed", StatusMethodNotAllowed))
    /\ UNCHANGED <<nextTok, loc, sessions, heap, origin, sessionFrame>>

\* the handler of a transport request returns
SessionReturn(p) ==
    /\ pc[p] = "done"
    /\ pc' = [pc EXCEPT ![p] = "idle"]
    /\ req' = [req EXCEPT ![p] = NoReq]
    /\ loc' = [loc EXCEPT ![p] = NoLoc]
    /\ resp' = [resp EXCEPT ![p] = NoResp]
    /\ UNCHANGED <<nextTok, sessions, heap, origin, presented, grants, sessionFrame>>

(***************************************************************************)
(* The requests the model's callers send.                                  *)
(***************************************************************************)
Verifier1 == Text(Pad("a", PKCEVerifierMinLength))

Verifier2 == Text(Pad("b", PKCEVerifierMinLength))

VerifierShort == Text(Pad("a", PKCEVerifierMinLength - 1))

ChallengeShort == Text(Pad("a", 10))

\* /authorize requests that pass every check
AuthorizeS256 ==
    [NoReq EXCEPT !.kind = "authorize", !.client_id = "c1",
                  !.redirect_uri = ClientCB, !.response_type = "code",
                  !.state = "xyz", !.code_challenge = Sha256Base64(Verifier1),
                  !.code_challenge_method = PKCEMethodS256, !.resource = "r1",
                  !.scope = "mcp:tools"]

AuthorizePlain ==
    [AuthorizeS256 EXCEPT !.state = "", !.code_challenge = Verifier1,
                          !.code_challenge_method = PKCEMethodPlain,
                          !.resource = ""]

AuthorizeDefaultMethod == [AuthorizeS256 EXCEPT !.code_challenge_method = ""]

AuthorizeUnknownMethod == [AuthorizeS256 EXCEPT !.code_challenge_method = "S512"]

\* the requests that pass every check, and AuthorizeS256 with one parameter
\* changed
AuthorizeRequests ==
    {AuthorizeS256, AuthorizePlain, AuthorizeDefaultMethod, AuthorizeUnknownMethod}
    \cup {[AuthorizeS256 EXCEPT !.response_type = "token"]}
    \cup {[AuthorizeS256 EXCEPT !.code_challenge = ch] : ch \in {EmptyStr, ChallengeShort}}
    \cup {[AuthorizeS256 EXCEPT !.client_id = c] : c \in {"", "cX"}}
    \cup {[AuthorizeS256 EXCEPT !.redirect_uri = u] : u \in {EvilCB, ""}}
    \cup {[AuthorizeS256 EXCEPT !.client_id = "cX", !.redirect_uri = EvilCB]}

\* what the upstream provider answers during a /callback
UpstreamOutcomes ==
    {[NoUp EXCEPT !.exchange = FALSE],
     [NoUp EXCEPT !.user = FALSE],
     [NoUp EXCEPT !.login = "Alice"],
     [NoUp EXCEPT !.login = "bob", !.orgs = [ok |-> FALSE, list |-> {}]],
     [NoUp EXCEPT !.login = "bob", !.orgs = [ok |-> TRUE, list |-> {"other"}]]}

(***************************************************************************)
(* The tokens a caller presents.  A lookup treats alike every value that   *)
(* is not a key of its bucket, so callers present the keys of the bucket,  *)
(* the codes and refresh tokens presented or redeemed before, and Garbage. *)
(***************************************************************************)
PresentableStates == (DOMAIN authRequests) \cup {Garbage}

PresentableCodes == (DOMAIN authCodes) \cup presented \cup {Garbage}

PresentableRefreshTokens ==
    (DOMAIN refreshTokens) \cup {g.cred : g \in {x \in grants : x.via = "token_refresh"}}
    \cup {Garbage}

PresentableAccessTokens == (DOMAIN accessTokens) \cup {Garbage}

CallbackRequests ==
    {[NoReq EXCEPT !.kind = "callback", !.cbstate = id] : id \in PresentableStates}
    \cup {[NoReq EXCEPT !.kind = "callback", !.upcode = "up123", !.cbstate = id,
                        !.up = up] : id \in PresentableStates, up \in UpstreamOutcomes}

\* a redemption with the parameters of AuthorizeS256
TokenCodeRequest(code) ==
    [NoReq EXCEPT !.kind = "token_code", !.code = code, !.client_id = "c1",
                  !.redirect_uri = ClientCB, !.code_verifier = Verifier1,
                  !.resource = "r1"]

\* any code with the parameters of AuthorizeS256, and a code that is in the
\* store with one parameter changed
TokenCodeRequests ==
    {TokenCodeRequest(code) : code \in PresentableCodes}
    \cup {[TokenCodeRequest(code) EXCEPT !.client_id = "cX"] : code \in DOMAIN authCodes}
    \cup {[TokenCodeRequest(code) EXCEPT !.redirect_uri = EvilCB] :
            code \in DOMAIN authCodes}
    \cup {[TokenCodeRequest(code) EXCEPT !.code_verifier = v] :
            code \in DOMAIN authCodes, v \in {Verifier2, VerifierShort, EmptyStr}}
    \cup {[TokenCodeRequest(code) EXCEPT !.resource = rs] :
            code \in DOMAIN authCodes, rs \in {"", "r2"}}

TokenRefreshRequests ==
    {[NoReq EXCEPT !.kind = "token_refresh", !.refresh_token = t, !.client_id = c] :
        t \in PresentableRefreshTokens, c \in {"c1", "cX"}}

ProtectedRequests ==
    {[NoReq EXCEPT !.kind = "protected"],
     [NoReq EXCEPT !.kind = "protected",
                   !.auth = [NoAuth EXCEPT !.present = TRUE, !.scheme = "Bearer"]]}
    \cup {[NoReq EXCEPT !.kind = "protected",
                        !.auth = [present |-> TRUE, parts |-> 2, scheme |-> sch,
                                  token |-> t]] :
            sch \in {"Bearer", "bearer", "Basic"}, t \in PresentableAccessTokens}

Requests ==
    AuthorizeRequests \cup CallbackRequests \cup TokenCodeRequests
    \cup TokenRefreshRequests \cup ProtectedRequests

(***************************************************************************)
(* Spec: requests are served one after the other.                          *)
(***************************************************************************)
\* the steps that follow a handler's first one
Continue(p) ==
    \/ AuthorizeStoreAuthRequest(p)
    \/ CallbackDeleteAuthRequest(p)
    \/ CallbackGetUser(p)
    \/ CallbackStoreUser(p)
    \/ CallbackGenerateAuthorizationCode(p)
    \/ GrantDeleteAuthCode(p)
    \/ RefreshDeleteExpired(p)
    \/ RefreshDeleteRefreshToken(p)
    \/ GenerateAccessToken(p)
    \/ GenerateRefreshToken(p)
    \/ MiddlewareGetUser(p)
    \/ Return(p)

Next ==
    \/ Tick
    \/ \E r \in AuthorizeRequests : AuthorizeGetClient(1, r)
    \/ \E r \in CallbackRequests : CallbackGetAuthRequest(1, r)
    \/ \E r \in TokenCodeRequests : GrantGetAuthCode(1, r)
    \/ \E r \in TokenRefreshRequests : RefreshGetRefreshToken(1, r)
    \/ \E r \in ProtectedRequests : MiddlewareValidateAccessToken(1, r)
    \/ Continue(1)

Spec == Init /\ [][Next]_vars

(***************************************************************************)
(* ConcSpec: NumProcs handlers serve /callback and /token requests at the  *)
(* same time.  Every request carries the parameters of the sign-in it      *)
(* follows, the                                                            *)
(* clock stands still, and a handler may be preempted between any two of   *)
(* its store transactions.                                                 *)
(***************************************************************************)
ConcInit ==
    InitCommon /\ budget = MaxConcTokens /\ pk = PKIdle /\ az = AZIdle /\ authService = TRUE

CallbackAlice(id) ==
    [NoReq EXCEPT !.kind = "callback", !.upcode = "up123", !.cbstate = id,
                  !.up = [NoUp EXCEPT !.login = "Alice"]]

RefreshRequest(t) ==
    [NoReq EXCEPT !.kind = "token_refresh", !.refresh_token = t, !.client_id = "c1"]

ConcNext ==
    \/ AuthorizeGetClient(1, AuthorizeS256)
    \/ AuthorizeStoreAuthRequest(1)
    \/ \E p \in Procs : \E id \in DOMAIN authRequests :
          CallbackGetAuthRequest(p, CallbackAlice(id))
    \/ \E p \in Procs : CallbackDeleteAuthRequest(p)
    \/ \E p \in Procs : CallbackGetUser(p)
    \/ \E p \in Procs : CallbackStoreUser(p)
    \/ \E p \in Procs : CallbackGenerateAuthorizationCode(p)
    \/ \E p \in Procs : \E code \in DOMAIN authCodes :
          GrantGetAuthCode(p, TokenCodeRequest(code))
    \/ \E p \in Procs : GrantDeleteAuthCode(p)
    \/ \E p \in Procs : \E t \in DOMAIN refreshTokens :
          RefreshGetRefreshToken(p, RefreshRequest(t))
    \/ \E p \in Procs : RefreshDeleteRefreshToken(p)
    \/ \E p \in Procs : GenerateAccessToken(p)
    \/ \E p \in Procs : GenerateRefreshToken(p)
    \/ \E p \in Procs : Return(p)

ConcSpec == ConcInit /\ [][ConcNext]_vars

(***************************************************************************)
(* ClientSpec: client management.  One caller signs in with any registered *)
(* client, registers clients at /register and calls the admin endpoint,    *)
(* with and without the access token it obtained; the requests are served  *)
(* one after the other and the clock stands still.                         *)
(***************************************************************************)
ClientInit ==
    InitCommon /\ budget = MaxClientTokens /\ pk = PKIdle /\ az = AZIdle /\ authService = TRUE

\* request bodies: well formed, not JSON, without a name, without
\* redirect_uris, with an empty redirect_uris
ClientBodies ==
    {[NoBody EXCEPT !.client_name = "app", !.redirect_uris = <<{ClientCB}>>],
     [NoBody EXCEPT !.json_ok = FALSE],
     [NoBody EXCEPT !.redirect_uris = <<{ClientCB, EvilCB}>>],
     [NoBody EXCEPT !.client_name = "app"],
     [NoBody EXCEPT !.client_name = "app", !.redirect_uris = <<{}>>]}

\* the client ids a caller names: those in the store, "" and an unknown one
NamedClients == (DOMAIN clients) \cup {"", "cX"}

\* the paths at and below a route
PathsOf(route) ==
    {[route |-> route, sub |-> <<>>]}
    \cup {[route |-> route, sub |-> <<id>>] : id \in NamedClients}

RegisterRequests ==
    {[NoReq EXCEPT !.kind = "register", !.method = "POST",
                   !.path = [route |-> "/register", sub |-> <<>>], !.body = b] :
        b \in ClientBodies}
    \cup {[NoReq EXCEPT !.kind = "register", !.method = "GET",
                        !.path = [route |-> "/register", sub |-> <<>>]],
          [NoReq EXCEPT !.kind = "register", !.method = "POST",
                        !.path = [route |-> "/register", sub |-> <<"cX">>],
                        !.body = [NoBody EXCEPT !.redirect_uris = <<{ClientCB}>>]]}

\* the Authorization headers of the admin requests
AdminAuths ==
    {NoAuth}
    \cup {[present |-> TRUE, parts |-> 2, scheme |-> "Bearer", token |-> t] :
            t \in PresentableAccessTokens}

AdminRequests ==
    {[NoReq EXCEPT !.kind = "admin", !.method = m, !.path = path, !.auth = a] :
        m \in {"GET", "DELETE", "PUT"}, path \in PathsOf("/admin/clients"),
        a \in AdminAuths}
    \cup {[NoReq EXCEPT !.kind = "admin", !.method = "POST",
                        !.path = [route |-> "/admin/clients", sub |-> <<>>],
                        !.auth = a, !.body = b] :
            a \in AdminAuths, b \in ClientBodies}

\* a sign-in with the registered client c
AuthorizeClient(c) == [AuthorizeS256 EXCEPT !.client_id = c]

ClientNext ==
    \/ \E c \in (DOMAIN clients) \cup {"cX"} : AuthorizeGetClient(1, AuthorizeClient(c))
    \/ AuthorizeStoreAuthRequest(1)
    \/ \E id \in DOMAIN authRequests : CallbackGetAuthRequest(1, CallbackAlice(id))
    \/ CallbackDeleteAuthRequest(1)
    \/ CallbackGetUser(1)
    \/ CallbackStoreUser(1)
    \/ CallbackGenerateAuthorizationCode(1)
    \/ \E code \in DOMAIN authCodes :
          GrantGetAuthCode(1, [TokenCodeRequest(code) EXCEPT
                                  !.client_id = authCodes[code].ClientID])
    \/ GrantDeleteAuthCode(1)
    \/ GenerateAccessToken(1)
    \/ GenerateRefreshToken(1)
    \/ \E r \in RegisterRequests : handleClientRegistration(1, r)
    \/ \E r \in RegisterRequests \cup AdminRequests : MuxNotFound(1, r)
    \/ \E r \in AdminRequests : MiddlewareValidateAccessToken(1, r)
    \/ MiddlewareGetUser(1)
    \/ handleAdminClients(1)
    \/ Return(1)

ClientSpec == ClientInit /\ [][ClientNext]_vars

(***************************************************************************)
(* AuthorizeSpec: /authorize requests in which any of the four checked     *)
(* parameters is wrong, alone or together, served one after the other.     *)
(***************************************************************************)
\* AuthorizeS256 with each checked parameter right or wrong
AuthorizeChecked ==
    {[AuthorizeS256 EXCEPT !.response_type = rt, !.code_challenge = ch,
                           !.client_id = c, !.redirect_uri = u] :
        rt \in {"code", "token"}, ch \in {Sha256Base64(Verifier1), EmptyStr},
        c \in {"c1", "cX"}, u \in {ClientCB, EvilCB, ""}}
    \cup {AuthorizePlain}

AuthorizeNext ==
    \/ Tick
    \/ \E r \in AuthorizeChecked : AuthorizeGetClient(1, r)
    \/ AuthorizeStoreAuthRequest(1)
    \/ Return(1)

AuthorizeSpec == Init /\ [][AuthorizeNext]_vars

(***************************************************************************)
(* StoreSpec: the callers of the storage interface store users and         *)
(* sessions, touch and delete sessions, in any order.  Every call is one   *)
(* Bolt transaction: its writes are applied together, and a reader's View  *)
(* transaction sees the buckets as some sequence of whole calls left them. *)
(***************************************************************************)
\* BoltStorage.StoreUser: the record, then its login index
StoreUser(us, idx, user) ==
    [users |-> Put(us, user.ID, user),
     usersByGitHub |-> Put(idx, user.GitHubLogin, user.ID)]

\* BoltStorage.StoreSession: the record, then its access token index
StoreSession(ss, idx, session) ==
    [sessions |-> Put(ss, session.SessionID, session),
     byToken |-> Put(idx, session.AccessToken, session.SessionID)]

\* BoltStorage.GetSessionByAccessToken: <<session>>, <<>> for
\* ErrSessionNotFound
GetSessionByAccessToken(ss, idx, token) ==
    IF ~Has(idx, token) THEN <<>>
    ELSE IF ~Has(ss, idx[token]) THEN <<>>
    ELSE <<ss[idx[token]]>>

\* BoltStorage.UpdateSessionLastUsed; ErrSessionNotFound changes nothing
UpdateSessionLastUsed(ss, sessionID, lastUsed) ==
    IF ~Has(ss, sessionID) THEN ss
    ELSE [ss EXCEPT ![sessionID].LastUsedAt = lastUsed]

\* BoltStorage.DeleteSession: the index entry under the stored session's
\* access token, then the record
DeleteSession(ss, idx, sessionID) ==
    [sessions |-> Delete(ss, sessionID),
     byToken |-> IF Has(ss, sessionID)
                 THEN Delete(idx, ss[sessionID].AccessToken) ELSE idx]

\* what no call of StoreSpec changes
storeFrame ==
    <<clients, authRequests, authCodes, accessTokens, refreshTokens, now, ticks,
      nextTok, procVars, accepted, presented, grants, minted, budget, pk, az,
      authService, sessions, heap, origin, stopCh>>

StoreInit ==
    /\ InitCommon
    /\ budget = MaxTokens
    /\ pk = PKIdle
    /\ az = AZIdle
    /\ authService = TRUE

\* the users and the sessions the callers store
StoredUsers == {[ID |-> id, GitHubLogin |-> login] :
                  id \in {"u1", "u2"}, login \in {"Alice", "Bob"}}

StoredSessions == {[SessionID |-> id, AccessToken |-> t, LastUsedAt |-> 0] :
                     id \in {"s1", "s2"}, t \in {"tA", "tB"}}

CallStoreUser(user) ==
    /\ users' = StoreUser(users, usersByGitHub, user).users
    /\ usersByGitHub' = StoreUser(users, usersByGitHub, user).usersByGitHub
    /\ UNCHANGED <<sessionStore, storeFrame>>

CallStoreSession(session) ==
    /\ authSessions' = StoreSession(authSessions, sessionsByToken, session).sessions
    /\ sessionsByToken' = StoreSession(authSessions, sessionsByToken, session).byToken
    /\ UNCHANGED <<users, usersByGitHub, storeFrame>>

CallUpdateSessionLastUsed(sessionID, lastUsed) ==
    /\ authSessions' = UpdateSessionLastUsed(authSessions, sessionID, lastUsed)
    /\ UNCHANGED <<sessionsByToken, users, usersByGitHub, storeFrame>>

CallDeleteSession(sessionID) ==
    /\ authSessions' = DeleteSession(authSessions, sessionsByToken, sessionID).sessions
    /\ sessionsByToken' = DeleteSession(authSessions, sessionsByToken, sessionID).byToken
    /\ UNCHANGED <<users, usersByGitHub, storeFrame>>

StoreNext ==
    \/ \E user \in StoredUsers : CallStoreUser(user)
    \/ \E session \in StoredSessions : CallStoreSession(session)
    \/ \E session \in StoredSessions : \E lastUsed \in 1..MaxTicks :
          CallUpdateSessionLastUsed(session.SessionID, lastUsed)
    \/ \E session \in StoredSessions : CallDeleteSession(session.SessionID)

StoreSpec == StoreInit /\ [][StoreNext]_vars

(***************************************************************************)
(* SessionSpec: NumProcs handlers serve /mcp requests at the same time,    *)
(* with or without an auth service in front of them.                       *)
(***************************************************************************)
SessionInit ==
    /\ InitCommon
    /\ budget = MaxSessions
    /\ pk = PKIdle
    /\ az = AZIdle
    /\ authService \in BOOLEAN

\* what the middleware resolved: user and client id of the access token
Principals ==
    IF authService
    THEN {<<[user |-> "u1", client |-> "c1"]>>, <<[user |-> "u2", client |-> "c2"]>>}
    ELSE {<<>>}

\* the principal of the requests that create no session
Caller == CHOOSE pr \in Principals : TRUE

\* the session ids a caller sends: every id a response has carried (the id
\* of a session whose creating handler has written its response headers),
\* and an id no session has
KnownSessionIDs ==
    {id \in DOMAIN heap :
        \A p \in Procs :
            ~(pc[p] \in {"post_attach", "get_attach"} /\ loc[p].session = id)}
    \cup {UnknownSessionID}

MCPRequest(m, rpc, id, pr) ==
    [NoReq EXCEPT !.kind = "mcp", !.method = m,
                  !.path = [route |-> "/mcp", sub |-> <<>>], !.rpc = rpc,
                  !.session_id = id, !.principal = pr]

MCPRequests ==
    {MCPRequest(m, "", NoSessionID, pr) : m \in {"GET"}, pr \in Principals}
    \cup {MCPRequest("POST", "initialize", NoSessionID, pr) : pr \in Principals}
    \cup {MCPRequest("POST", "initialize", id, Caller) : id \in KnownSessionIDs}
    \cup {MCPRequest("POST", "tools/list", id, Caller) :
            id \in KnownSessionIDs \cup {NoSessionID}}
    \cup {[MCPRequest("POST", "", NoSessionID, Caller) EXCEPT !.body.json_ok = FALSE]}
    \cup {MCPRequest("GET", "", id, Caller) : id \in KnownSessionIDs}
    \cup {MCPRequest("DELETE", "", id, Caller) :
            id \in KnownSessionIDs \cup {NoSessionID}}
    \cup {MCPRequest(m, "", NoSessionID, Caller) : m \in {"OPTIONS", "PUT"}}

SessionNext ==
    \E p \in Procs :
        \/ \E r \in MCPRequests : PostStart(p, r)
        \/ PostCreate(p)
        \/ PostInitialize(p)
        \/ \E r \in MCPRequests : GetStart(p, r)
        \/ GetEstablish(p)
        \/ StreamWrite(p)
        \/ StreamClientGone(p)
        \/ StreamSessionDone(p)
        \/ \E r \in MCPRequests : DeleteStart(p, r)
        \/ RemoveSessionClose(p)
        \/ RemoveSessionDelete(p)
        \/ \E r \in MCPRequests : OtherMethod(p, r)
        \/ SessionReturn(p)

SessionSpec == SessionInit /\ [][SessionNext]_vars

(***************************************************************************)
(* StreamSpec: the stream loops of handleGet, with the clients that go     *)
(* away, the DELETE requests that remove a session, the messages queued    *)
(* for a session and the Stop of the transport.  StreamFairSpec adds what  *)
(* select guarantees: a case that stays ready is eventually taken.         *)
(***************************************************************************)
StreamInit ==
    /\ InitCommon
    /\ budget = MaxStreamSessions
    /\ pk = PKIdle
    /\ az = AZIdle
    /\ authService = TRUE

StreamRequests ==
    {MCPRequest("GET", "", id, Caller) : id \in KnownSessionIDs \cup {NoSessionID}}
    \cup {MCPRequest("DELETE", "", id, Caller) : id \in KnownSessionIDs}

StreamNext ==
    \/ Stop
    \/ \E id \in DOMAIN heap : Enqueue(id)
    \/ \E p \in Procs :
          \/ \E r \in StreamRequests : GetStart(p, r)
          \/ GetEstablish(p)
          \/ StreamWrite(p)
          \/ ClientDisconnects(p)
          \/ StreamContextDone(p)
          \/ StreamSessionDone(p)
          \/ StreamStopped(p)
          \/ \E r \in StreamRequests : DeleteStart(p, r)
          \/ RemoveSessionClose(p)
          \/ RemoveSessionDelete(p)
          \/ SessionReturn(p)

StreamSpec == StreamInit /\ [][StreamNext]_vars

StreamFairness ==
    \A p \in Procs :
        /\ WF_vars(StreamContextDone(p))
        /\ WF_vars(StreamSessionDone(p))
        /\ WF_vars(StreamStopped(p))

StreamFairSpec == StreamSpec /\ StreamFairness

(***************************************************************************)
(* RefreshSpec: one sign-in, with or without a resource and a scope, its   *)
(* redemption and a chain of refreshes, by the client the tokens belong to *)
(* and by another client.  Requests are served one after the other and the *)
(* clock stands still.                                                     *)
(***************************************************************************)
RefreshInit ==
    InitCommon /\ budget = MaxRefreshSpecTokens /\ pk = PKIdle /\ az = AZIdle
    /\ authService = TRUE

RefreshNext ==
    \/ \E r \in {AuthorizeS256, AuthorizePlain, [AuthorizeS256 EXCEPT !.scope = ""]} :
          AuthorizeGetClient(1, r)
    \/ AuthorizeStoreAuthRequest(1)
    \/ \E id \in DOMAIN authRequests : CallbackGetAuthRequest(1, CallbackAlice(id))
    \/ CallbackDeleteAuthRequest(1)
    \/ CallbackGetUser(1)
    \/ CallbackStoreUser(1)
    \/ CallbackGenerateAuthorizationCode(1)
    \/ \E code \in DOMAIN authCodes : GrantGetAuthCode(1, TokenCodeRequest(code))
    \/ GrantDeleteAuthCode(1)
    \/ \E r \in TokenRefreshRequests : RefreshGetRefreshToken(1, r)
    \/ RefreshDeleteRefreshToken(1)
    \/ GenerateAccessToken(1)
    \/ GenerateRefreshToken(1)
    \/ Return(1)

RefreshSpec == RefreshInit /\ [][RefreshNext]_vars

(***************************************************************************)
(* FaultSpec: one sign-in, its redemption and the refreshes that follow,   *)
(* served one after the other by a Store whose writes of the pending       *)
(* request, the User and the tokens may fail.                              *)
(***************************************************************************)
\* the state values the upstream provider was sent
UpstreamStates == {id \in DOMAIN minted : minted[id].kind = "request"}

FaultNext ==
    \/ Tick
    \/ AuthorizeGetClient(1, AuthorizeS256)
    \/ AuthorizeStoreAuthRequest(1)
    \/ AuthorizeStoreAuthRequestFails(1)
    \/ \E id \in UpstreamStates : CallbackGetAuthRequest(1, CallbackAlice(id))
    \/ CallbackDeleteAuthRequest(1)
    \/ CallbackGetUser(1)
    \/ CallbackStoreUser(1)
    \/ CallbackStoreUserFails(1)
    \/ CallbackGenerateAuthorizationCode(1)
    \/ \E code \in DOMAIN authCodes : GrantGetAuthCode(1, TokenCodeRequest(code))
    \/ GrantDeleteAuthCode(1)
    \/ \E t \in DOMAIN refreshTokens : RefreshGetRefreshToken(1, RefreshRequest(t))
    \/ RefreshDeleteExpired(1)
    \/ RefreshDeleteRefreshToken(1)
    \/ GenerateAccessToken(1)
    \/ GenerateAccessTokenFails(1)
    \/ GenerateRefreshToken(1)
    \/ GenerateRefreshTokenFails(1)
    \/ Return(1)

FaultSpec == Init /\ [][FaultNext]_vars

(***************************************************************************)
(* PKCESpec: ValidatePKCE as a function.  A client picks a verifier and a  *)
(* method, derives the challenge, possibly changes one character of the    *)
(* verifier, and has the pair validated.                                   *)
(***************************************************************************)
\* lengths around the limits of the verifier pattern
VerifierLengths ==
    {PKCEVerifierMinLength - 1, PKCEVerifierMinLength, PKCEVerifierMinLength + 1,
     PKCEVerifierMaxLength, PKCEVerifierMaxLength + 1}

\* characters inside and outside the unreserved set
VerifierChars == {"a", "Z", "7", "~", "!", "+"}

\* texts of "a" with one character of VerifierChars at either end
VerifiersOfLength(n) ==
    {Text([i \in 1..n |-> IF i = k THEN c ELSE "a"]) : k \in {1, n}, c \in VerifierChars}

Verifiers == UNION {VerifiersOfLength(n) : n \in VerifierLengths}

PKCEInit ==
    /\ InitCommon
    /\ budget = MaxTokens
    /\ az = AZIdle
    /\ authService = TRUE
    /\ \E v \in Verifiers, m \in {PKCEMethodS256, PKCEMethodPlain} :
          pk = [PKIdle EXCEPT !.phase = "chosen", !.verifier = v, !.method = m]

\* the client derives the challenge of its verifier
ComputeChallenge ==
    /\ pk.phase = "chosen"
    /\ pk' = [pk EXCEPT !.phase = "challenged",
                        !.challenge = IF pk.method = PKCEMethodPlain
                                      THEN pk.verifier
                                      ELSE Sha256Base64(pk.verifier),
                        !.presented = pk.verifier]
    /\ UNCHANGED <<storeVars, now, ticks, nextTok, budget, procVars, accepted,
                   presented, grants, minted, az, authService, sessionStore, sessions, heap,
                   origin, stopCh>>

\* one character of the verifier is replaced by a different one
MutateVerifier ==
    /\ pk.phase = "challenged"
    /\ ~pk.mutated
    /\ \E i \in {1, Len(pk.verifier.chars) \div 2, Len(pk.verifier.chars)} :
       \E c \in VerifierChars \ {pk.verifier.chars[i]} :
          pk' = [pk EXCEPT !.presented = Text([pk.verifier.chars EXCEPT ![i] = c]),
                           !.mutated = TRUE]
    /\ UNCHANGED <<storeVars, now, ticks, nextTok, budget, procVars, accepted,
                   presented, grants, minted, az, authService, sessionStore, sessions, heap,
                   origin, stopCh>>

\* the server validates the presented verifier against the challenge
Validate ==
    /\ pk.phase = "challenged"
    /\ pk' = [pk EXCEPT !.phase = "validated",
                        !.result = ValidatePKCE(pk.presented, pk.challenge, pk.method)]
    /\ UNCHANGED <<storeVars, now, ticks, nextTok, budget, procVars, accepted,
                   presented, grants, minted, az, authService, sessionStore, sessions, heap,
                   origin, stopCh>>

PKCENext == ComputeChallenge \/ MutateVerifier \/ Validate

PKCESpec == PKCEInit /\ [][PKCENext]_vars

(***************************************************************************)
(* PolicySpec: isUserAuthorized as a function of the configured allowlist, *)
(* the upstream login and what GetUserOrgs and GetUserTeams answer.        *)
(***************************************************************************)
Allowlists ==
    [Users : {{}, {"alice"}}, Orgs : {{}, {"acme"}},
     Teams : {{}, {[Org |-> "acme", Team |-> "core"]}}]

Logins == {"Alice", "alice", "bob"}

\* GetUserOrgs: an error, or the logins of the user's organizations
OrgResults ==
    {[ok |-> FALSE, list |-> {}]}
    \cup {[ok |-> TRUE, list |-> l] : l \in {{}, {"ACME"}, {"other"}, {"other", "acme"}}}

\* GetUserTeams: an error, or the user's teams
TeamResults ==
    {[ok |-> FALSE, list |-> {}]}
    \cup {[ok |-> TRUE, list |-> l] :
            l \in {{}, {[Org |-> "ACME", Slug |-> "Core"]},
                   {[Org |-> "ACME", Slug |-> "dev"]},
                   {[Org |-> "other", Slug |-> "core"],
                    [Org |-> "acme", Slug |-> "core"]}}}

PolicyInit ==
    /\ InitCommon
    /\ budget = MaxTokens
    /\ pk = PKIdle
    /\ authService = TRUE
    /\ \E a \in Allowlists, l \in Logins :
          az = [AZIdle EXCEPT !.phase = "user", !.allowlist = a, !.login = l]

\* the answer of the upstream provider to GetUserOrgs
PolicyGetUserOrgs ==
    /\ az.phase = "user"
    /\ \E o \in OrgResults : az' = [az EXCEPT !.phase = "orgs", !.orgs = o]
    /\ UNCHANGED <<storeVars, now, ticks, nextTok, budget, procVars, accepted,
                   presented, grants, minted, pk, authService, sessionStore, sessions, heap,
                   origin, stopCh>>

\* the answer of the upstream provider to GetUserTeams
PolicyGetUserTeams ==
    /\ az.phase = "orgs"
    /\ \E t \in TeamResults : az' = [az EXCEPT !.phase = "teams", !.teams = t]
    /\ UNCHANGED <<storeVars, now, ticks, nextTok, budget, procVars, accepted,
                   presented, grants, minted, pk, authService, sessionStore, sessions, heap,
                   origin, stopCh>>

\* the decision of isUserAuthorized
PolicyDecide ==
    /\ az.phase = "teams"
    /\ az' = [az EXCEPT !.phase = "decided",
                        !.result = isUserAuthorized(az.allowlist, az.login,
                                                    az.orgs, az.teams)]
    /\ UNCHANGED <<storeVars, now, ticks, nextTok, budget, procVars, accepted,
                   presented, grants, minted, pk, authService, sessionStore, sessions, heap,
                   origin, stopCh>>

PolicyNext == PolicyGetUserOrgs \/ PolicyGetUserTeams \/ PolicyDecide

PolicySpec == PolicyInit /\ [][PolicyNext]_vars

(***************************************************************************)
(* Properties.                                                             *)
(***************************************************************************)
\* handler p writes its response in this step
Completes(p) == pc[p] # "done" /\ pc'[p] = "done"

\* handler p takes this step
Steps(p) == pc'[p] # pc[p]

\* a /token error response: status 400, the error code, no tokens
Rejected(r, err) ==
    /\ r.status = StatusBadRequest
    /\ r.error = err
    /\ r.access_token = Garbage
    /\ r.refresh_token = Garbage

\* the 401 of the bearer middleware
Is401(r) ==
    /\ r.status = StatusUnauthorized
    /\ r.error = "invalid_token"
    /\ r.www_authenticate = ResourceMetadataURL
    /\ ~r.next

\* this step writes no access token and no refresh token
TokensUntouched == accessTokens' = accessTokens /\ refreshTokens' = refreshTokens

\* the credentials that were answered with a token pair
Redeemed(via) == {g.cred : g \in {x \in grants : x.via = via}}

\* no credential was answered with two token pairs
AtMostOneGrant(gs, via) ==
    \A g1 \in gs : \A g2 \in gs :
        (g1.via = via /\ g2.via = via /\ g1.cred = g2.cred) => g1 = g2

\* C1: when /token requests are served one after the other, a request that
\* presents an authorization code presented before is answered invalid_grant
\* without getting past the code lookup and without any token being written,
\* whether that earlier presentation succeeded or failed; and no code is
\* ever answered with two token pairs.
C1_CodeOneTimeUse ==
    [][/\ (Steps(1) /\ req'[1].kind = "token_code" /\ req'[1].code \in presented)
            => /\ pc[1] = "idle"
               /\ pc'[1] = "done"
               /\ Rejected(resp'[1], "invalid_grant")
               /\ TokensUntouched
       /\ AtMostOneGrant(grants', "token_code")]_vars

\* a code that was redeemed for tokens is presented again and refused
C1_Witness ==
    /\ pc[1] = "done"
    /\ req[1].kind = "token_code"
    /\ req[1].code \in Redeemed("token_code")
    /\ Rejected(resp[1], "invalid_grant")

\* C2: whatever the interleaving of concurrent /token requests presenting
\* the same valid authorization code, at most one of them is answered with
\* a token pair.
C2_ConcurrentRedemptionOnce == AtMostOneGrant(grants, "token_code")

\* C3: a successful refresh_token grant returns a refresh token different
\* from the presented one, the presented one is no longer in the store and
\* the new one is; a later request presenting a refresh token redeemed
\* before is answered invalid_grant and no token is written.
C3_RefreshRotation ==
    [][/\ (Completes(1) /\ req'[1].kind = "token_refresh"
              /\ resp'[1].access_token # Garbage)
            => /\ resp'[1].status = StatusOK
               /\ resp'[1].refresh_token # Garbage
               /\ resp'[1].refresh_token # req'[1].refresh_token
               /\ ~Has(refreshTokens', req'[1].refresh_token)
               /\ Has(refreshTokens', resp'[1].refresh_token)
       /\ (Steps(1) /\ req'[1].kind = "token_refresh"
              /\ req'[1].refresh_token \in Redeemed("token_refresh"))
            => /\ pc[1] = "idle"
               /\ pc'[1] = "done"
               /\ Rejected(resp'[1], "invalid_grant")
               /\ TokensUntouched]_vars

\* a refresh token that was rotated is presented again and refused
C3_Witness ==
    /\ pc[1] = "done"
    /\ req[1].kind = "token_refresh"
    /\ \E g \in grants : /\ g.via = "token_refresh"
                         /\ g.cred = req[1].refresh_token
                         /\ Has(refreshTokens, g.refresh)
    /\ Rejected(resp[1], "invalid_grant")

\* C4: whatever the interleaving of concurrent refresh_token grants
\* presenting the same refresh token, at most one of them is answered with
\* a new token pair.
C4_ConcurrentRefreshOnce == AtMostOneGrant(grants, "token_refresh")

\* the conditions of a code redemption, for the code record c, the request r
\* and the time t of the check
CodeChecksPass(c, r, t) ==
    /\ t <= c.ExpiresAt
    /\ c.ClientID = r.client_id
    /\ c.RedirectURI = r.redirect_uri
    /\ ValidatePKCE(r.code_verifier, c.CodeChallenge, c.CodeChallengeMethod) = "ok"
    /\ (r.resource = "" \/ c.Resource = "" \/ r.resource = c.Resource)

\* C5: an authorization_code grant goes on to generate tokens only for a
\* code found in the store whose expiry, client id, redirect URI, PKCE
\* challenge and resource all admit the request; a request that fails any
\* of these is answered with an error, and no step of it writes or returns
\* an access or refresh token.
C5_CodeGrantChecks ==
    [][req'[1].kind = "token_code" =>
        /\ pc[1] = "idle" =>
              IF Has(authCodes, req'[1].code)
              THEN /\ pc'[1] = "tc_delete"
                   /\ loc'[1].rec = <<authCodes[req'[1].code]>>
              ELSE /\ pc'[1] = "done"
                   /\ Rejected(resp'[1], "invalid_grant")
        /\ (pc[1] = "tc_delete" /\ Steps(1)) =>
              IF CodeChecksPass(loc[1].rec[1], req[1], now)
              THEN pc'[1] = "gen_access"
              ELSE /\ pc'[1] = "done"
                   /\ \/ Rejected(resp'[1], "invalid_grant")
                      \/ Rejected(resp'[1], "invalid_target")
        /\ pc'[1] = "gen_access" => pc[1] \in {"tc_delete", "gen_access"}
        /\ pc'[1] = "gen_refresh" => pc[1] \in {"gen_access", "gen_refresh"}
        /\ pc[1] \notin {"gen_access", "gen_refresh"}
              => /\ TokensUntouched
                 /\ Steps(1) => resp'[1].access_token = Garbage]_vars

\* a redemption that passed every check and was answered with stored tokens
C5_Witness ==
    /\ pc[1] = "done"
    /\ req[1].kind = "token_code"
    /\ resp[1].status = StatusOK
    /\ Has(accessTokens, resp[1].access_token)
    /\ Has(refreshTokens, resp[1].refresh_token)

\* the Authorization header h is "Bearer <token>", the scheme in any case
BearerForm(h) == h.present /\ h.parts = 2 /\ EqualFold(h.scheme, "Bearer")

\* C6: the bearer middleware calls the downstream handler only for a header
\* of the form Bearer <token> whose token is in the access-token store, is
\* not expired and names a stored user; every other request is answered
\* 401 invalid_token with WWW-Authenticate naming the protected-resource
\* metadata URL, and the handler is not called.
C6_BearerMiddleware ==
    [][req'[1].kind = "protected" =>
        /\ pc[1] = "idle" =>
              LET h == req'[1].auth
              IN IF /\ BearerForm(h)
                    /\ Has(accessTokens, h.token)
                    /\ now <= accessTokens[h.token].ExpiresAt
                 THEN /\ pc'[1] = "mw_getuser"
                      /\ loc'[1].rec = <<accessTokens[h.token]>>
                 ELSE /\ pc'[1] = "done"
                      /\ Is401(resp'[1])
        /\ (pc[1] = "mw_getuser" /\ Steps(1)) =>
              /\ pc'[1] = "done"
              /\ IF Has(users, loc[1].rec[1].UserID)
                 THEN resp'[1].next /\ resp'[1].status = StatusOK
                 ELSE Is401(resp'[1])
        /\ resp'[1].next => pc[1] \in {"mw_getuser", "done"}]_vars

\* a request with a valid token reached the downstream handler
C6_Witness ==
    /\ pc[1] = "done"
    /\ req[1].kind = "protected"
    /\ Has(accessTokens, req[1].auth.token)
    /\ resp[1].next

\* the allowlist names the login, or an organization or team the upstream
\* provider reports for it
Approved(up) ==
    \/ \E u \in Allowlist.Users : EqualFold(u, up.login)
    \/ up.orgs.ok /\ \E o \in up.orgs.list : \E a \in Allowlist.Orgs : EqualFold(a, o)
    \/ up.teams.ok /\ \E t \in up.teams.list : \E a \in Allowlist.Teams :
          EqualFold(a.Org, t.Org) /\ EqualFold(a.Team, t.Slug)

\* C7: while a /callback whose upstream code exchange fails, whose profile
\* fetch fails or whose identity the allowlist does not approve is served,
\* no User record and no authorization code is written and the response is
\* no redirect and carries no code.
C7_CallbackFailure ==
    [][(/\ req'[1].kind = "callback"
        /\ \/ ~req'[1].up.exchange
           \/ ~req'[1].up.user
           \/ ~Approved(req'[1].up))
        => /\ users' = users
           /\ usersByGitHub' = usersByGitHub
           /\ authCodes' = authCodes
           /\ nextTok' = nextTok
           /\ resp'[1].code = Garbage
           /\ resp'[1].status # StatusFound]_vars

\* a callback for a pending request was refused because of its identity
C7_Witness ==
    /\ pc[1] = "done"
    /\ req[1].kind = "callback"
    /\ loc[1].rec # <<>>
    /\ req[1].up.exchange /\ req[1].up.user
    /\ ~Approved(req[1].up)
    /\ resp[1].desc = "User not authorized"

\* C8: an /authorize request of a known client whose redirect_uri is not
\* one of the client's registered URIs stores no pending request and is
\* not redirected to the upstream provider; a /token request whose
\* redirect_uri differs from the one bound to its code is answered
\* invalid_grant and no token is written.
C8_RedirectURIBinding ==
    [][/\ (/\ req'[1].kind = "authorize"
           /\ Has(clients, req'[1].client_id)
           /\ req'[1].redirect_uri \notin clients[req'[1].client_id].RedirectURIs)
            => /\ pc'[1] = "done"
               /\ authRequests' = authRequests
               /\ resp'[1].status # StatusFound
               /\ resp'[1].upstate = Garbage
       /\ (/\ req'[1].kind = "token_code"
           /\ loc'[1].rec # <<>>
           /\ loc'[1].rec[1].RedirectURI # req'[1].redirect_uri)
            => /\ pc'[1] \in {"tc_delete", "done"}
               /\ pc'[1] = "done" => Rejected(resp'[1], "invalid_grant")
               /\ TokensUntouched]_vars

\* a redemption valid but for its redirect_uri was refused
C8_Witness ==
    /\ pc[1] = "done"
    /\ req[1].kind = "token_code"
    /\ loc[1].rec # <<>>
    /\ CodeChecksPass(loc[1].rec[1], [req[1] EXCEPT !.redirect_uri = ClientCB], now)
    /\ req[1].redirect_uri = EvilCB
    /\ Rejected(resp[1], "invalid_grant")
    /\ resp[1].desc = "Redirect URI mismatch"

\* 43 to 128 characters of the unreserved set
ValidVerifier(s) ==
    /\ s.h = 0
    /\ Len(s.chars) \in PKCEVerifierMinLength..PKCEVerifierMaxLength
    /\ \A i \in 1..Len(s.chars) : s.chars[i] \in UnreservedChars

\* C9: for a verifier v of 43 to 128 unreserved characters,
\* ValidatePKCE(v, S256(v), "S256") succeeds, and ValidatePKCE(v', S256(v),
\* "S256") fails for every v' that differs from v in one character.
C9_PKCERoundTrip ==
    (/\ pk.phase = "validated"
     /\ pk.method = PKCEMethodS256
     /\ ValidVerifier(pk.verifier))
        => /\ pk.challenge = Sha256Base64(pk.verifier)
           /\ IF pk.mutated THEN pk.result # "ok" ELSE pk.result = "ok"

\* a verifier changed in one character into another well-formed verifier
\* was refused
C9_Witness ==
    /\ pk.phase = "validated"
    /\ pk.method = PKCEMethodS256
    /\ pk.mutated
    /\ ValidVerifier(pk.verifier)
    /\ ValidVerifier(pk.presented)
    /\ pk.result = "code_verifier does not match code_challenge"

\* C10: at the handler's expiry check, a code, access token, refresh token
\* or pending request whose expires_at is past is refused (no code minted,
\* no token issued, downstream handler not called), and one whose
\* expires_at is still ahead is not refused for expiry.
C10_Expiry ==
    [][/\ (pc[1] = "tc_delete" /\ Steps(1)) =>
              LET c == loc[1].rec[1]
              IN /\ now > c.ExpiresAt
                    => /\ pc'[1] = "done"
                       /\ Rejected(resp'[1], "invalid_grant")
                       /\ TokensUntouched
                 /\ now < c.ExpiresAt
                    => resp'[1].desc # "Authorization code expired"
       /\ (/\ pc[1] = "idle"
           /\ req'[1].kind = "protected"
           /\ BearerForm(req'[1].auth)
           /\ Has(accessTokens, req'[1].auth.token)) =>
              LET t == accessTokens[req'[1].auth.token]
              IN /\ now > t.ExpiresAt => pc'[1] = "done" /\ Is401(resp'[1])
                 /\ now < t.ExpiresAt => pc'[1] = "mw_getuser"
       /\ (/\ pc[1] = "idle"
           /\ req'[1].kind = "token_refresh"
           /\ Has(refreshTokens, req'[1].refresh_token)) =>
              LET t == refreshTokens[req'[1].refresh_token]
              IN /\ now > t.ExpiresAt => pc'[1] = "rt_expired"
                 /\ now < t.ExpiresAt
                    => /\ pc'[1] # "rt_expired"
                       /\ resp'[1].desc # "Refresh token expired"
       /\ (pc[1] = "rt_expired" /\ Steps(1)) =>
              /\ pc'[1] = "done"
              /\ Rejected(resp'[1], "invalid_grant")
              /\ accessTokens' = accessTokens
              /\ DOMAIN refreshTokens' \subseteq DOMAIN refreshTokens
       /\ (pc[1] = "cb_delete" /\ Steps(1)) =>
              LET a == loc[1].rec[1]
              IN /\ now > a.ExpiresAt
                    => /\ pc'[1] = "done"
                       /\ resp'[1].code = Garbage
                       /\ resp'[1].status # StatusFound
                       /\ authCodes' = authCodes
                       /\ users' = users
                 /\ now < a.ExpiresAt
                    => resp'[1].desc # "Authorization request expired"]_vars

\* a redemption valid but for the age of its code was refused
C10_Witness ==
    /\ pc[1] = "done"
    /\ req[1].kind = "token_code"
    /\ loc[1].rec # <<>>
    /\ CodeChecksPass(loc[1].rec[1], req[1], loc[1].rec[1].ExpiresAt)
    /\ now > loc[1].rec[1].ExpiresAt
    /\ Rejected(resp[1], "invalid_grant")
    /\ resp[1].desc = "Authorization code expired"

\* the lower-case form of a name, character by character
Fold(s) ==
    IF s \in {"Alice", "alice"} THEN "alice"
    ELSE IF s \in {"ACME", "acme"} THEN "acme"
    ELSE IF s \in {"Core", "core"} THEN "core"
    ELSE s

\* C11: isUserAuthorized returns true exactly when no users, orgs or teams
\* are configured; or the login equals a configured user ignoring case; or
\* the organization fetch succeeds and a returned organization equals a
\* configured one ignoring case; or teams are configured, the team fetch
\* succeeds and a returned team equals a configured entry on organization
\* and slug ignoring case.  In every other case it returns false.
C11_AuthorizationPolicy ==
    az.phase = "decided" =>
        (az.result <=>
            \/ az.allowlist.Users = {} /\ az.allowlist.Orgs = {}
                  /\ az.allowlist.Teams = {}
            \/ Fold(az.login) \in {Fold(u) : u \in az.allowlist.Users}
            \/ /\ az.orgs.ok
               /\ {Fold(o) : o \in az.orgs.list}
                     \cap {Fold(o) : o \in az.allowlist.Orgs} # {}
            \/ /\ az.allowlist.Teams # {}
               /\ az.teams.ok
               /\ {<<Fold(t.Org), Fold(t.Slug)>> : t \in az.teams.list}
                     \cap {<<Fold(t.Org), Fold(t.Team)>> : t \in az.allowlist.Teams}
                     # {})

\* a login that no configured user or organization matches was approved for
\* a team that differs from the configured one in case only
C11_Witness ==
    /\ az.phase = "decided"
    /\ az.login = "bob"
    /\ az.allowlist.Users # {}
    /\ az.orgs.ok /\ az.orgs.list = {"other"}
    /\ az.teams.list = {[Org |-> "ACME", Slug |-> "Core"]}
    /\ az.result

\* the codes minted from the pending request id
CodesOf(id) ==
    {c \in DOMAIN minted : minted[c].kind = "code" /\ minted[c].from = id}

\* C12: whatever the order or interleaving of the /callback requests that
\* carry the same state, at most one authorization code is ever minted from
\* the pending request that state names.
C12_CallbackConsumesOnce ==
    \A id \in DOMAIN minted : Cardinality(CodesOf(id)) <= 1

\* in the ledger m, the token t was generated as an access or refresh token
\* while a code was redeemed, or while a refresh token so generated was
\* refreshed
RECURSIVE FromGrant(_, _)
FromGrant(m, t) ==
    /\ t \in DOMAIN m
    /\ m[t].kind \in {"access", "refresh"}
    /\ m[t].from \in DOMAIN m
    /\ \/ m[m[t].from].kind = "code"
       \/ m[m[t].from].kind = "refresh" /\ FromGrant(m, m[t].from)

\* the authorization code at the origin of the token t
RECURSIVE CodeOf(_, _)
CodeOf(m, t) == IF m[m[t].from].kind = "code" THEN m[t].from ELSE CodeOf(m, m[t].from)

\* the stored token tok comes from a grant, and carries the client id, scope
\* and resource of the pending request and the user of the code at its origin
Provenance(m, tok) ==
    /\ FromGrant(m, tok.Token)
    /\ LET c == CodeOf(m, tok.Token)
           q == m[c].from
       IN /\ q \in DOMAIN m
          /\ m[q].kind = "request"
          /\ tok.ClientID = m[q].ClientID
          /\ tok.Scope = m[q].Scope
          /\ tok.Resource = m[q].Resource
          /\ tok.UserID = m[c].UserID

\* the /authorize request r passes every check of handleAuthorize
FullyValidated(r) ==
    /\ r.response_type = "code"
    /\ r.code_challenge # EmptyStr
    /\ r.code_challenge_method \in {PKCEMethodS256, ""}
          => StrLen(r.code_challenge) = S256ChallengeLength
    /\ Has(clients, r.client_id)
    /\ r.redirect_uri \in clients[r.client_id].RedirectURIs

\* C13: every access or refresh token in the store was generated while a
\* code was redeemed, or while a refresh token so generated was refreshed;
\* that code was generated by a /callback that had consumed a pending
\* request, which a /authorize stored after all its checks passed; and the
\* token's client id, scope and resource are those of that /authorize and
\* its user id is that of that /callback.
C13_GrantSequence ==
    [][/\ \A t \in DOMAIN accessTokens' : Provenance(minted', accessTokens'[t])
       /\ \A t \in DOMAIN refreshTokens' : Provenance(minted', refreshTokens'[t])
       /\ (Steps(1) /\ pc'[1] = "authz_store") => FullyValidated(req'[1])
       /\ \A k \in (DOMAIN minted') \ (DOMAIN minted) :
             LET o == minted'[k]
             IN CASE o.kind = "request" ->
                       /\ pc[1] = "authz_store"
                       /\ Has(authRequests', k)
                  [] o.kind = "code" ->
                       /\ pc[1] = "cb_code"
                       /\ o.from \in DOMAIN minted
                       /\ minted[o.from].kind = "request"
                       /\ ~Has(authRequests', o.from)
                       /\ Has(authCodes', k)
                  [] o.kind = "access" ->
                       /\ pc[1] = "gen_access"
                       /\ ~Has(authCodes', o.from)
                       /\ ~Has(refreshTokens', o.from)
                  [] OTHER ->
                       /\ pc[1] = "gen_refresh"
                       /\ ~Has(authCodes', o.from)
                       /\ ~Has(refreshTokens', o.from)]_vars

\* a stored access token that was obtained by refreshing
C13_Witness ==
    \E t \in DOMAIN accessTokens :
        /\ minted[minted[t].from].kind = "refresh"
        /\ Provenance(minted, accessTokens[t])

\* the request r is a POST to the path /register
PostRegister(r) ==
    /\ r.kind = "register"
    /\ r.method = "POST"
    /\ r.path = [route |-> "/register", sub |-> <<>>]

\* the SHA-256 digest of a secret, as the store holds it
Digest(secret) == "sha256:" \o secret

Plaintexts(n) ==
    {c.ClientSecret : c \in ConfigClients} \cup {ToString(k) : k \in 1..n}

\* the secrets a response shows
ShownSecrets(r) ==
    {r.client_secret} \cup {c.ClientSecret : c \in r.clients}

\* C15: the client_secret stored for every client (from the configuration,
\* registered dynamically or created through the admin API) is the digest
\* of its secret and never a plaintext secret; a response carries a secret
\* only when its request created the client, and then the plaintext of that
\* client alone; no response, list and get responses included, carries the
\* secret or the stored digest of a client that existed before the request.
C15_SecretsHashedAtRest ==
    [][/\ \A id \in DOMAIN clients' :
             /\ clients'[id].ClientSecret \notin Plaintexts(nextTok')
             /\ \E x \in Plaintexts(nextTok') : clients'[id].ClientSecret = Digest(x)
       /\ Completes(1) =>
             /\ resp'[1].client_secret # "" =>
                   /\ resp'[1].status = StatusCreated
                   /\ resp'[1].client_id \in (DOMAIN clients') \ (DOMAIN clients)
                   /\ clients'[resp'[1].client_id].ClientSecret
                         = Digest(resp'[1].client_secret)
             /\ \A c \in resp'[1].clients : c.ClientSecret = ""
             /\ \A id \in DOMAIN clients : \A x \in ShownSecrets(resp'[1]) :
                   /\ x # clients[id].ClientSecret
                   /\ Digest(x) # clients[id].ClientSecret]_vars

\* the admin API listed a client it had created before
C15_Witness ==
    /\ pc[1] = "done"
    /\ req[1].kind = "admin"
    /\ req[1].method = "GET"
    /\ resp[1].status = StatusOK
    /\ \E c \in resp[1].clients :
          /\ c.ClientID \notin {x.ClientID : x \in ConfigClients}
          /\ Has(clients, c.ClientID)
          /\ c.ClientSecret = ""

\* the request r carries a bearer token the middleware accepts
Authenticated(r) ==
    /\ BearerForm(r.auth)
    /\ Has(accessTokens, r.auth.token)
    /\ now <= accessTokens[r.auth.token].ExpiresAt
    /\ Has(users, accessTokens[r.auth.token].UserID)

\* the request r is an authenticated DELETE /admin/clients/<id>
AdminDelete(r, id) ==
    /\ r.kind = "admin"
    /\ r.method = "DELETE"
    /\ r.path = [route |-> "/admin/clients", sub |-> <<id>>]
    /\ Authenticated(r)

\* C16: an authenticated admin delete that names a client with
\* is_static = false is answered 403 and leaves the client store unchanged;
\* and no step removes a dynamically registered client from the store.
C16_DynamicClientNotDeletable ==
    [][/\ \A id \in DOMAIN clients :
             (Completes(1) /\ AdminDelete(req'[1], id) /\ ~clients[id].IsStatic)
                => /\ resp'[1].status = StatusForbidden
                   /\ clients' = clients
       /\ \A id \in DOMAIN clients : ~clients[id].IsStatic => Has(clients', id)]_vars

\* C17: an authenticated DELETE /admin/clients/<client_id> that names a
\* static client in the store removes it and is answered 204.
C17_AdminDeleteStaticClient ==
    [][\A id \in DOMAIN clients :
          (Completes(1) /\ AdminDelete(req'[1], id) /\ clients[id].IsStatic)
             => /\ resp'[1].status = StatusNoContent
                /\ ~Has(clients', id)]_vars

\* the handler p fails in the session manager: it closes a Done channel
\* that is closed already
ClosesDoneTwice(p) ==
    /\ req[p].kind = "mcp"
    /\ resp[p].panic
    /\ heap[loc[p].session].Done = "closed"

\* C18: no interleaving of CreateSession, GetSession and RemoveSession by
\* different request handlers, two RemoveSession calls for the same session
\* id included, reaches a failure state such as closing the session's Done
\* channel twice.
C18_SessionManagerSafe == \A p \in Procs : ~ClosesDoneTwice(p)

\* the request r opens the push channel without a session id
PushFirst(r) ==
    /\ r.kind = "mcp"
    /\ r.method = "GET"
    /\ r.session_id = NoSessionID

\* the request r posts the initial protocol message without a session id
RequestFirst(r) ==
    /\ r.kind = "mcp"
    /\ r.method = "POST"
    /\ r.body.json_ok
    /\ r.rpc = "initialize"
    /\ r.session_id = NoSessionID

\* the session carries the principal pr, or none when there is none
Bound(session, pr) ==
    IF pr = <<>>
    THEN session.User = "" /\ session.ClientID = ""
    ELSE session.User = pr[1].user /\ session.ClientID = pr[1].client

\* handler p takes this step
Acts(p) == pc'[p] # pc[p] \/ resp'[p] # resp[p]

\* C19: a GET and a POST initialize without Mcp-Session-Id each create
\* exactly one new session.  The GET writes the id in the response header
\* and in the endpoint event, the first event of the stream, before any
\* message or keepalive; the POST returns the id in the Mcp-Session-Id
\* header of its response.  In both the session carries the user and the
\* client id the middleware resolved whenever its id has been written.
C19_SessionEstablishment ==
    [][\A p \in Procs :
          /\ (pc[p] = "idle" /\ Acts(p)
                 /\ (PushFirst(req'[p]) \/ RequestFirst(req'[p])))
                => /\ \E id \in sessions' :
                        /\ id \notin DOMAIN heap
                        /\ id.fmt = "uuid4"
                        /\ sessions' = sessions \cup {id}
                        /\ DOMAIN heap' = DOMAIN heap \cup {id}
                        /\ loc'[p].session = id
                   /\ resp'[p] = NoResp
          /\ (pc[p] # "idle" /\ Acts(p)
                 /\ (PushFirst(req[p]) \/ RequestFirst(req[p])))
                => /\ DOMAIN heap' = DOMAIN heap
                   /\ sessions' \subseteq sessions
          /\ (Completes(p) /\ RequestFirst(req[p]))
                => /\ resp'[p].status = StatusOK
                   /\ resp'[p].session_id = loc[p].session
                   /\ Bound(heap'[loc[p].session], req[p].principal)
          /\ (PushFirst(req'[p]) /\ pc'[p] \in {"sse", "done"})
                => /\ resp'[p].status = StatusOK
                   /\ resp'[p].session_id = loc'[p].session
                   /\ resp'[p].events # <<>>
                   /\ resp'[p].events[1] =
                         [event |-> "endpoint", data |-> loc'[p].session]
                   /\ \A i \in 2..Len(resp'[p].events) :
                         resp'[p].events[i].event # "endpoint"
                   /\ Bound(heap'[loc'[p].session], req'[p].principal)]_vars

\* both orderings have established a session for an authenticated caller,
\* and the stream of the push-first one has written a keepalive
C19_Witness ==
    /\ authService
    /\ \E p, q \in Procs :
          /\ PushFirst(req[p])
          /\ pc[p] = "sse"
          /\ Len(resp[p].events) = 2
          /\ RequestFirst(req[q])
          /\ pc[q] = "done"
          /\ resp[q].session_id \in sessions
          /\ heap[resp[q].session_id].ClientID # ""

\* the session id was created by a request with the method via and has
\* been written to that request's response
EstablishedBy(id, via) ==
    /\ id \in DOMAIN heap
    /\ origin[id].via = via
    /\ \A p \in Procs :
          ~(pc[p] \in {"post_attach", "get_attach"} /\ loc[p].session = id)

\* what a later protocol call can observe of a session
Shape(id) == [fmt |-> id.fmt, User |-> heap[id].User, ClientID |-> heap[id].ClientID]

\* where the handler of r stands after its first step, its status and its
\* Mcp-Session-Id response header, when r carries the id of a session that
\* is in the session map (live) or no longer in it
Outcome(r, live) ==
    IF r.method = "POST" /\ r.rpc = "initialize"
    THEN IF live THEN <<"done", StatusOK, r.session_id>>
                 ELSE <<"post_create", 0, NoSessionID>>
    ELSE IF r.method = "POST"
    THEN IF live THEN <<"done", StatusOK, NoSessionID>>
                 ELSE <<"done", StatusNotFound, NoSessionID>>
    ELSE IF r.method = "GET"
    THEN IF live THEN <<"sse", StatusOK, r.session_id>>
                 ELSE <<"done", StatusNotFound, NoSessionID>>
    ELSE IF live THEN <<"rm_close", 0, NoSessionID>>
                 ELSE <<"done", StatusOK, NoSessionID>>

\* a POST, GET or DELETE that carries the session id
Carries(r, id) ==
    /\ r.kind = "mcp"
    /\ r.method \in {"POST", "GET", "DELETE"}
    /\ r.body.json_ok
    /\ r.session_id = id

\* C20: a session established by a GET and one established by a POST
\* initialize for the same principal have the same id format and the same
\* bound user and client id (none without an auth service), and a later
\* POST, GET or DELETE carrying the id of either has the outcome that the
\* request and the presence of the session in the map determine.
C20_OrderingEquivalence ==
    [][/\ \A i, j \in DOMAIN heap' :
            (/\ EstablishedBy(i, "GET")'
             /\ EstablishedBy(j, "POST")'
             /\ origin'[i].principal = origin'[j].principal)
               => Shape(i)' = Shape(j)'
       /\ \A p \in Procs : \A id \in DOMAIN heap :
            (/\ pc[p] = "idle" /\ Acts(p)
             /\ Carries(req'[p], id)
             /\ EstablishedBy(id, "GET") \/ EstablishedBy(id, "POST"))
               => /\ <<pc'[p], resp'[p].status, resp'[p].session_id>> =
                        Outcome(req'[p], id \in sessions)
                  /\ resp'[p].events = <<>>]_vars

\* two sessions of one authenticated principal, one established by a GET and
\* one by a POST, and the same later call answered for each of them
C20_Witness ==
    /\ authService
    /\ \E i, j \in sessions :
          /\ EstablishedBy(i, "GET")
          /\ EstablishedBy(j, "POST")
          /\ origin[i].principal = origin[j].principal
          /\ \E p, q \in Procs :
                /\ pc[p] = "done" /\ pc[q] = "done"
                /\ Carries(req[p], i) /\ Carries(req[q], j)
                /\ req[p].method = "POST" /\ req[q].method = "POST"
                /\ req[p].rpc = "tools/list" /\ req[q].rpc = "tools/list"
                /\ resp[p].status = StatusOK /\ resp[q].status = StatusOK

\* the request r is one that must belong to an established session: a
\* non-initialize POST, or a DELETE, or with stream a GET
SessionBound(r, stream) ==
    /\ r.kind = "mcp"
    /\ r.body.json_ok
    /\ \/ r.method = "POST" /\ r.rpc # "initialize"
       \/ r.method = "DELETE"
       \/ stream /\ r.method = "GET"

\* handler p rejects its request with the status in its first step, without
\* the JSON-RPC handler and without a change of the session registry
RejectsWith(p, status) ==
    /\ pc'[p] = "done"
    /\ resp'[p].status = status
    /\ resp'[p].desc # "response"
    /\ sessions' = sessions
    /\ heap' = heap

\* C21: a non-initialize POST, a GET or a DELETE that carries an
\* Mcp-Session-Id the session registry does not hold is answered 404, and a
\* non-initialize POST or a DELETE that carries no session id is answered
\* 400; neither invokes the JSON-RPC handler or changes the registry.
C21_SessionErrors ==
    [][\A p \in Procs :
          (pc[p] = "idle" /\ Acts(p))
            => /\ (/\ SessionBound(req'[p], TRUE)
                   /\ req'[p].session_id # NoSessionID
                   /\ req'[p].session_id \notin sessions)
                     => RejectsWith(p, StatusNotFound)
               /\ (/\ SessionBound(req'[p], FALSE)
                   /\ req'[p].session_id = NoSessionID)
                     => RejectsWith(p, StatusBadRequest)]_vars

\* the handlers whose stream loop is attached to the session id
StreamLoops(id) == {p \in Procs : pc[p] = "sse" /\ loc[p].session = id}

\* C22: at every moment at most one stream loop of a GET handler is
\* attached to any given session id.
C22_OneStreamPerSession ==
    \A id \in DOMAIN heap : Cardinality(StreamLoops(id)) <= 1

\* the GET handler p returns from a stream whose session nobody has
\* ended: its client went away
StreamHandlerReturnsOnDisconnect(p) ==
    /\ pc[p] = "done"
    /\ pc'[p] = "idle"
    /\ req[p].kind = "mcp"
    /\ req[p].method = "GET"
    /\ loc[p].session # NoSessionID
    /\ heap[loc[p].session].Done = "open"

\* C23: when the client of a session's stream disconnects, the session is
\* removed from the registry: once the stream's handler has returned, the
\* registry no longer holds the session id.
C23_RemovedOnDisconnect ==
    [][\A p \in Procs :
          StreamHandlerReturnsOnDisconnect(p)
            => loc[p].session \notin sessions']_vars

\* handler p completes a non-initialize POST that carries the id of a
\* session the registry holds
AnswersSessionPost(p) ==
    /\ Completes(p)
    /\ req'[p].kind = "mcp"
    /\ req'[p].method = "POST"
    /\ req'[p].body.json_ok
    /\ req'[p].rpc # "initialize"
    /\ req'[p].session_id \in sessions

\* C24: the response to a protocol request posted for an established
\* session is put on the session's Response queue, to be written as a
\* message event on the session's stream; the POST is only acknowledged and
\* does not carry the response.
C24_ResponseViaPushChannel ==
    [][\A p \in Procs :
          AnswersSessionPost(p)
            => /\ resp'[p].desc # "response"
               /\ Len(heap'[req'[p].session_id].Response) =
                     Len(heap[req'[p].session_id].Response) + 1]_vars

\* C25: in every reachable state the users bucket holds at most one User
\* per upstream login, and the login index maps the login of every stored
\* User to that User, also when two /callback requests for one login that
\* has no User yet are served at the same time.
C25_OneUserPerLogin ==
    /\ \A a, b \in DOMAIN users :
          users[a].GitHubLogin = users[b].GitHubLogin => a = b
    /\ \A a \in DOMAIN users :
          /\ Has(usersByGitHub, users[a].GitHubLogin)
          /\ usersByGitHub[users[a].GitHubLogin] = a

\* C26: whatever calls of StoreUser, StoreSession, UpdateSessionLastUsed
\* and DeleteSession have been applied, a reader finds the record of every
\* login index and token index entry, and finds every stored User under its
\* login and every stored AuthSession under its access token.
C26_IndexConsistency ==
    /\ \A login \in DOMAIN usersByGitHub :
          GetUserByGitHubLogin(users, usersByGitHub, login) # <<>>
    /\ \A id \in DOMAIN users :
          GetUserByGitHubLogin(users, usersByGitHub, users[id].GitHubLogin)
            = <<users[id]>>
    /\ \A t \in DOMAIN sessionsByToken :
          GetSessionByAccessToken(authSessions, sessionsByToken, t) # <<>>
    /\ \A id \in DOMAIN authSessions :
          GetSessionByAccessToken(authSessions, sessionsByToken,
                                  authSessions[id].AccessToken)
            = <<authSessions[id]>>

\* C27: a successful token response, of the authorization_code or of the
\* refresh_token grant, reports expires_in = 3600.
C27_ExpiresIn ==
    [][\A p \in Procs :
          (Completes(p) /\ resp'[p].access_token # Garbage)
            => resp'[p].expires_in = AccessTokenTTL]_vars

\* the error code of the first of the four checks of /authorize that the
\* request r fails, "" when it passes them all
FailedCheck(r) ==
    IF r.response_type # "code" THEN "unsupported_response_type"
    ELSE IF ValidateCodeChallenge(r.code_challenge, r.code_challenge_method) # "ok"
    THEN "invalid_request"
    ELSE IF r.client_id \notin DOMAIN clients THEN "invalid_client"
    ELSE IF r.redirect_uri \notin clients[r.client_id].RedirectURIs
    THEN "invalid_request"
    ELSE ""

FailsAuthorization(p) ==
    /\ Completes(p)
    /\ \/ req'[p].kind = "authorize" /\ FailedCheck(req'[p]) # ""
       \/ req'[p].kind = "callback" /\ resp'[p].code = Garbage

\* the redirect URI and the caller's state that handler p knows when it
\* completes: those of the /authorize request, those of the pending request
\* a /callback has loaded
KnownRedirect(p) ==
    IF req'[p].kind = "authorize"
    THEN [uri |-> req'[p].redirect_uri, state |-> req'[p].state]
    ELSE IF loc[p].rec # <<>>
    THEN [uri |-> loc[p].rec[1].RedirectURI, state |-> loc[p].rec[1].State]
    ELSE [uri |-> "", state |-> ""]

\* C29: a failure in /authorize or /callback when a redirect URI is known
\* is answered 302 to that redirect URI with the OAuth error code and the
\* caller's state in the query; when no redirect URI is known the error is
\* returned directly with status 400.
C29_ErrorRedirect ==
    [][\A p \in Procs :
          FailsAuthorization(p)
            => IF KnownRedirect(p).uri # ""
               THEN /\ resp'[p].status = StatusFound
                    /\ resp'[p].location = KnownRedirect(p).uri
                    /\ resp'[p].error # ""
                    /\ resp'[p].state = KnownRedirect(p).state
               ELSE resp'[p].status = StatusBadRequest]_vars

\* handler p starts to serve an authorization_code grant request
StartsCodeGrant(p) ==
    /\ pc[p] = "idle"
    /\ Acts(p)
    /\ req'[p].kind = "token_code"

\* C30: an authorization_code grant request that presents a code the store
\* holds deletes that code, and nothing else, before it answers any check,
\* so the code is gone when the request completes, with tokens or with an
\* error; a request that presents a code the store does not hold changes
\* nothing in the store.
C30_CodeDeletedOnAttempt ==
    [][\A p \in Procs :
          /\ (StartsCodeGrant(p) /\ ~Has(authCodes, req'[p].code))
                => /\ Rejected(resp'[p], "invalid_grant")
                   /\ pc'[p] = "done"
                   /\ storeVars' = storeVars
          /\ (StartsCodeGrant(p) /\ Has(authCodes, req'[p].code))
                => /\ resp'[p] = NoResp
                   /\ pc'[p] = "tc_delete"
                   /\ storeVars' = storeVars
          /\ (pc[p] = "tc_delete" /\ Acts(p))
                => /\ authCodes' = [c \in (DOMAIN authCodes) \ {req[p].code}
                                     |-> authCodes[c]]
                   /\ <<clients, authRequests, accessTokens, refreshTokens, users,
                        usersByGitHub>>' =
                      <<clients, authRequests, accessTokens, refreshTokens, users,
                        usersByGitHub>>
          /\ (Completes(p) /\ req'[p].kind = "token_code" /\ loc[p].rec # <<>>)
                => ~Has(authCodes', req'[p].code)]_vars

\* a request that presented a stored code has been refused and the code is
\* gone
C30_Witness ==
    /\ pc[1] = "done"
    /\ req[1].kind = "token_code"
    /\ loc[1].rec # <<>>
    /\ resp[1].status = StatusBadRequest
    /\ ~Has(authCodes, req[1].code)

\* isUserAuthorized with a failed GetUserOrgs: the failure counts as no
\* matching organization and the team check still decides
OrgFetchFailureIsNoMatch ==
    (az.phase = "decided" /\ ~az.orgs.ok
       /\ ~\E user \in az.allowlist.Users : EqualFold(user, az.login))
      => /\ (az.allowlist.Teams # {} /\ az.teams.ok
               /\ \E team \in az.teams.list : \E allowedTeam \in az.allowlist.Teams :
                     /\ EqualFold(allowedTeam.Org, team.Org)
                     /\ EqualFold(allowedTeam.Team, team.Slug))
               => az.result
         /\ (az.allowlist.Teams = {} /\ az.allowlist.Orgs # {}) => ~az.result

\* handler p of a /callback decides on an identity that no configured user
\* matches, after the code exchange and the profile fetch succeeded and
\* the organization fetch failed
DecidesAfterFailedOrgFetch(p) ==
    /\ pc[p] = "cb_delete"
    /\ Acts(p)
    /\ ~After(now, loc[p].rec[1].ExpiresAt)
    /\ req[p].up.exchange
    /\ req[p].up.user
    /\ ~req[p].up.orgs.ok
    /\ ~\E user \in Allowlist.Users : EqualFold(user, req[p].up.login)

\* C31: a failed organization fetch is treated as no match.  With
\* organizations configured and no teams, the identity is refused and the
\* /callback completes with the error access_denied, not with a server
\* error and not with a crash of the handler.
C31_OrgFetchFailure ==
    [][\A p \in Procs :
          (DecidesAfterFailedOrgFetch(p) /\ Allowlist.Orgs # {}
             /\ Allowlist.Teams = {})
            => /\ pc'[p] = "done"
               /\ ~resp'[p].panic
               /\ resp'[p].status \in {StatusFound, StatusBadRequest}
               /\ resp'[p].error = "access_denied"]_vars

\* the stream loop of handler p has a reason to return: the context of its
\* request is cancelled, the Done channel of its session is closed, or the
\* transport is stopped
ExitSignalled(p) ==
    \/ loc[p].ctx = "cancelled"
    \/ heap[loc[p].session].Done = "closed"
    \/ stopCh = "closed"

\* C32: a running stream loop eventually returns once the context of its
\* request is cancelled, RemoveSession has closed the Done channel of its
\* session, or Stop has closed stopCh; it returns for no other reason, and
\* a step that writes a keepalive or a queued message leaves it running.
C32_StreamLoopExit ==
    /\ \A p \in Procs : (pc[p] = "sse" /\ ExitSignalled(p)) ~> (pc[p] # "sse")
    /\ [][\A p \in Procs :
            /\ (pc[p] = "sse" /\ pc'[p] # "sse")
                  => (ExitSignalled(p) /\ pc'[p] = "done")
            /\ (pc[p] = "sse" /\ resp'[p].events # resp[p].events)
                  => pc'[p] = "sse"]_vars

\* a stream loop that wrote a keepalive and a queued message has returned
\* after a DELETE closed the Done channel of its session, with its client
\* still connected and the transport running
C32_Witness ==
    \E p \in Procs :
        /\ pc[p] = "done"
        /\ req[p].method = "GET"
        /\ resp[p].desc = "session ended"
        /\ PingEvent \in {resp[p].events[i] : i \in 1..Len(resp[p].events)}
        /\ Messages(resp[p].events) > 0
        /\ loc[p].ctx = "live"
        /\ stopCh = "open"

\* handler p has answered that the credential of its request has expired
AnsweredExpired(p, kind, message) ==
    /\ pc[p] = "done"
    /\ req[p].kind = kind
    /\ resp[p].desc = message

\* the expired authorization code, refresh token or pending request that a
\* request presented is no longer in the store when the request is answered
ExpiredGrantRecordsRemoved ==
    \A p \in Procs :
        /\ AnsweredExpired(p, "token_code", "Authorization code expired")
              => ~Has(authCodes, req[p].code)
        /\ AnsweredExpired(p, "token_refresh", "Refresh token expired")
              => ~Has(refreshTokens, req[p].refresh_token)
        /\ AnsweredExpired(p, "callback", "Authorization request expired")
              => ~Has(authRequests, req[p].cbstate)

\* C33: presenting an expired credential removes it.  When a request that
\* presented an expired authorization code, refresh token, pending
\* authorization request or access token has been answered, that record is
\* not in the store.
C33_ExpiredRemoved ==
    /\ ExpiredGrantRecordsRemoved
    /\ \A p \in Procs :
          AnsweredExpired(p, "protected", "Access token expired")
            => ~Has(accessTokens, req[p].auth.token)

\* handler p takes a step in which a Store write fails
WriteFails(p) == loc'[p].err # "" /\ loc'[p].err # loc[p].err

\* the handler answers the failed write with server_error and nothing else
AnswersServerError(p) ==
    /\ pc'[p] = "done"
    /\ ~resp'[p].panic
    /\ resp'[p].error = "server_error"
    /\ resp'[p].location = ""
    /\ resp'[p].upstate = Garbage
    /\ resp'[p].code = Garbage
    /\ resp'[p].access_token = Garbage
    /\ resp'[p].refresh_token = Garbage

\* a failed write of a token in the authorization_code grant is answered
\* with server_error
CodeGrantWriteFailureAnswered ==
    [][\A p \in Procs :
          (WriteFails(p) /\ req[p].kind = "token_code") => AnswersServerError(p)]_vars

\* C34: when a Store write fails in the auth flow (the pending request at
\* /authorize, the User at /callback, the new access or refresh token in
\* either grant) the caller receives a server_error response and the flow
\* does not advance: no redirect to the upstream provider, no authorization
\* code for an unpersisted user, no token response.
C34_StoreFailure ==
    [][\A p \in Procs : WriteFails(p) => AnswersServerError(p)]_vars

\* two records carry the same user id, client id, scope and resource
SameBinding(a, b) ==
    /\ a.UserID = b.UserID
    /\ a.ClientID = b.ClientID
    /\ a.Scope = b.Scope
    /\ a.Resource = b.Resource

\* the step of a refresh_token grant at label writes to the bucket exactly
\* one new token, which carries the binding of the redeemed refresh token
MintsSameBinding(p, label, before, after) ==
    (pc[p] = label /\ req[p].kind = "token_refresh" /\ Acts(p))
      => \E t \in (DOMAIN after) \ (DOMAIN before) :
            /\ DOMAIN after = (DOMAIN before) \cup {t}
            /\ \A k \in DOMAIN before : after[k] = before[k]
            /\ SameBinding(after[t], loc[p].rec[1])
            /\ loc[p].rec[1].ClientID = req[p].client_id

\* every token generated from a refresh token carries the binding of that
\* refresh token, and every stored token the binding it was generated with
ChainKeepsBinding ==
    /\ \A t \in DOMAIN minted :
          (minted[t].kind \in {"access", "refresh"}
             /\ Has(minted, minted[t].from)
             /\ minted[minted[t].from].kind = "refresh")
            => SameBinding(minted[t], minted[minted[t].from])
    /\ \A t \in DOMAIN accessTokens : SameBinding(accessTokens[t], minted[t])
    /\ \A t \in DOMAIN refreshTokens : SameBinding(refreshTokens[t], minted[t])

\* C35: the access token and the refresh token that a refresh_token grant
\* mints carry exactly the user id, scope and resource of the redeemed
\* refresh token and its client id, which is the client id of the request;
\* along any chain of refreshes these four values never change.
C35_RefreshKeepsBinding ==
    /\ []ChainKeepsBinding
    /\ [][\A p \in Procs :
            /\ MintsSameBinding(p, "gen_access", accessTokens, accessTokens')
            /\ MintsSameBinding(p, "gen_refresh", refreshTokens, refreshTokens')]_vars

\* a refresh_token grant has answered with tokens minted from a refresh
\* token that was itself minted by a refresh_token grant
C35_Witness ==
    \E p \in Procs :
        /\ pc[p] = "done"
        /\ req[p].kind = "token_refresh"
        /\ resp[p].status = StatusOK
        /\ Has(accessTokens, resp[p].access_token)
        /\ Has(refreshTokens, resp[p].refresh_token)
        /\ minted[resp[p].refresh_token].from = req[p].refresh_token
        /\ minted[req[p].refresh_token].kind = "refresh"
        /\ minted[minted[req[p].refresh_token].from].kind = "refresh"

\* the code_challenge_method values ValidatePKCE computes a challenge for
SupportedMethods == {PKCEMethodS256, PKCEMethodPlain, ""}

\* the record carries a challenge that a redemption can be validated against
Enforceable(rec) ==
    /\ rec.CodeChallenge # EmptyStr
    /\ rec.CodeChallengeMethod \in SupportedMethods

\* C36: every pending authorization request and every authorization code in
\* the store has a non-empty code_challenge and a code_challenge_method
\* that the validation at the token endpoint supports: S256, plain, or
\* none, which is treated as S256.
C36_PKCEEnforceable ==
    /\ \A id \in DOMAIN authRequests : Enforceable(authRequests[id])
    /\ \A code \in DOMAIN authCodes : Enforceable(authCodes[code])

\* handler p takes a step of a refresh_token grant whose client_id differs
\* from the client id of the refresh token it has read
RefreshByOtherClient(p) ==
    /\ Acts(p)
    /\ req'[p].kind = "token_refresh"
    /\ loc'[p].rec # <<>>
    /\ loc'[p].rec[1].ClientID # req'[p].client_id

\* C37 as the specification states it: a refresh_token grant whose client_id
\* differs from the token's client id is rejected with invalid_grant and
\* leaves the refresh token and the rest of the store unchanged.
C37_OtherClientLeavesStore ==
    [][\A p \in Procs :
          RefreshByOtherClient(p)
            => /\ storeVars' = storeVars
               /\ pc'[p] = "done" => Rejected(resp'[p], "invalid_grant")]_vars

\* C37: a refresh_token grant whose client_id differs from the client id of
\* a refresh token that has not expired is rejected with invalid_grant in
\* its first step and leaves the refresh token and the rest of the store
\* unchanged, so the rightful client can still redeem the token.  When the
\* token has expired the grant is rejected with invalid_grant as well, and
\* deletes that token and nothing else.
C37_OtherClientLeavesLiveToken ==
    [][\A p \in Procs :
          RefreshByOtherClient(p)
            => IF pc[p] = "rt_expired"
               THEN /\ pc'[p] = "done"
                    /\ Rejected(resp'[p], "invalid_grant")
                    /\ refreshTokens' =
                          [t \in (DOMAIN refreshTokens) \ {req[p].refresh_token}
                             |-> refreshTokens[t]]
                    /\ <<clients, authRequests, authCodes, accessTokens, users,
                         usersByGitHub>>' =
                       <<clients, authRequests, authCodes, accessTokens, users,
                         usersByGitHub>>
               ELSE IF After(now, loc'[p].rec[1].ExpiresAt)
               THEN pc[p] = "idle" /\ pc'[p] = "rt_expired" /\ storeVars' = storeVars
               ELSE /\ pc[p] = "idle"
                    /\ pc'[p] = "done"
                    /\ Rejected(resp'[p], "invalid_grant")
                    /\ storeVars' = storeVars
                    /\ Has(refreshTokens', req'[p].refresh_token)]_vars

\* another client's refresh_token grant was rejected and the token it
\* presented is in the store, unexpired
C37_Witness ==
    \E p \in Procs :
        /\ pc[p] = "done"
        /\ req[p].kind = "token_refresh"
        /\ resp[p].desc = "Client ID mismatch"
        /\ Has(refreshTokens, req[p].refresh_token)
        /\ refreshTokens[req[p].refresh_token].ClientID # req[p].client_id
        /\ ~After(now, refreshTokens[req[p].refresh_token].ExpiresAt)

\* handler p starts to serve a well-formed POST, GET or DELETE that carries
\* the id of a session the registry holds
StartsOnKnownSession(p) ==
    /\ pc[p] = "idle"
    /\ Acts(p)
    /\ Carries(req'[p], req'[p].session_id)
    /\ req'[p].session_id \in sessions

\* the request is served on the session whose id it carries: a POST is
\* answered by the JSON-RPC handler, a GET starts a stream of that session,
\* a DELETE goes on to remove it
ServedOnSession(p) ==
    LET r == req'[p]
    IN /\ r.method = "POST"
            => /\ pc'[p] = "done"
               /\ resp'[p].status = StatusOK
               /\ resp'[p].desc = "response"
       /\ r.method = "GET"
            => /\ pc'[p] = "sse"
               /\ resp'[p] = StreamResponse(r.session_id, <<>>)
               /\ loc'[p].session = r.session_id
       /\ r.method = "DELETE"
            => /\ pc'[p] = "rm_close"
               /\ loc'[p].session = r.session_id

\* handler p is creating the session id: it has allocated the session and
\* not yet attached the principal of its request
Creating(p, id) ==
    /\ pc[p] \in {"post_attach", "get_attach"}
    /\ loc[p].session = id

\* C38: a request that carries the id of a session in the registry is
\* served on that session whatever its user and client, equal to the
\* principal bound to the session or not; the user and the client id bound
\* to a session change in no step but the one in which the handler that
\* created the session attaches them, and then to the principal of that
\* handler's request: an initialize POST that reuses a session leaves them.
C38_SessionIdAlone ==
    [][/\ \A p \in Procs : StartsOnKnownSession(p)
            => /\ ServedOnSession(p)
               /\ sessions' = sessions
               /\ heap' = heap
       /\ \A id \in DOMAIN heap :
            (heap'[id].User # heap[id].User \/ heap'[id].ClientID # heap[id].ClientID)
              => \E p \in Procs :
                    /\ Creating(p, id)
                    /\ Acts(p)
                    /\ Bound(heap'[id], req[p].principal)]_vars

\* a POST, and an initialize POST, were answered by the JSON-RPC handler on
\* a session bound to another user and client than the caller's
C38_Witness ==
    /\ authService
    /\ \E p \in Procs :
          /\ pc[p] = "done"
          /\ req[p].method = "POST"
          /\ req[p].session_id \in sessions
          /\ resp[p].status = StatusOK
          /\ resp[p].desc = "response"
          /\ req[p].principal # <<>>
          /\ heap[req[p].session_id].User # ""
          /\ ~Bound(heap[req[p].session_id], req[p].principal)

\* every access token in the store stays in it, unchanged
AccessTokensKept ==
    \A t \in DOMAIN accessTokens :
        Has(accessTokens', t) /\ accessTokens'[t] = accessTokens[t]

\* a step of a refresh_token grant removes from the store at most the
\* refresh token the request presented
RefreshDeletesOnlyPresented(p) ==
    (Acts(p) /\ req'[p].kind = "token_refresh")
      => /\ \A t \in (DOMAIN refreshTokens) \ {req'[p].refresh_token} :
               Has(refreshTokens', t) /\ refreshTokens'[t] = refreshTokens[t]
         /\ <<clients, authRequests, authCodes, users, usersByGitHub>>' =
            <<clients, authRequests, authCodes, users, usersByGitHub>>

\* a request with a well-formed bearer header whose token is in the store
\* and has not expired passes the validation of the token
PassesUntilExpiry(p) ==
    (pc[p] = "idle" /\ Acts(p) /\ req'[p].kind = "protected"
       /\ req'[p].auth.present /\ req'[p].auth.parts = 2
       /\ ToLower(req'[p].auth.scheme) = "bearer"
       /\ Has(accessTokens, req'[p].auth.token)
       /\ ~After(now, accessTokens[req'[p].auth.token].ExpiresAt))
      => /\ pc'[p] = "mw_getuser"
         /\ loc'[p].rec = <<accessTokens[req'[p].auth.token]>>

\* C39: a refresh_token grant deletes only the refresh token it was
\* presented.  The access tokens issued earlier stay in the store and keep
\* passing bearer validation until their own ExpiresAt, and no step of any
\* request removes or changes a stored access token.
C39_AccessTokensOutliveRefresh ==
    [][/\ AccessTokensKept
       /\ \A p \in Procs : RefreshDeletesOnlyPresented(p) /\ PassesUntilExpiry(p)]_vars

\* a protected request was served with the access token of the
\* authorization_code grant after the refresh token of that grant had been
\* redeemed for a new pair
C39_Witness ==
    \E p \in Procs :
        /\ pc[p] = "done"
        /\ req[p].kind = "protected"
        /\ resp[p].next
        /\ \E g0 \in grants, g1 \in grants :
              /\ g0.via = "token_code"
              /\ g0.access = req[p].auth.token
              /\ g1.via = "token_refresh"
              /\ g1.cred = g0.refresh
              /\ Has(accessTokens, g1.access)

\* handler p starts to serve a /callback request
StartsCallback(p) ==
    /\ pc[p] = "idle"
    /\ Acts(p)
    /\ req'[p].kind = "callback"

\* C40: a /callback request without a code parameter is answered 400
\* directly and changes nothing in the store, so the pending request named
\* by its state stays; a /callback with a code whose state names a stored
\* pending request goes on with that request, and completes the flow when
\* the request has not expired, the upstream provider answers and the
\* identity is authorized.
C40_CallbackWithoutCode ==
    [][\A p \in Procs :
          /\ (StartsCallback(p) /\ req'[p].upcode = "")
                => /\ pc'[p] = "done"
                   /\ resp'[p] = httpError("Missing authorization code",
                                           StatusBadRequest)
                   /\ storeVars' = storeVars
          /\ (StartsCallback(p) /\ req'[p].upcode # ""
                 /\ Has(authRequests, req'[p].cbstate))
                => /\ pc'[p] = "cb_delete"
                   /\ loc'[p].rec = <<authRequests[req'[p].cbstate]>>
                   /\ storeVars' = storeVars
          /\ (pc[p] = "cb_delete" /\ Acts(p)
                 /\ ~After(now, loc[p].rec[1].ExpiresAt)
                 /\ req[p].up.exchange /\ req[p].up.user
                 /\ isUserAuthorized(Allowlist, req[p].up.login, req[p].up.orgs,
                                     req[p].up.teams))
                => pc'[p] = "cb_getuser"
          /\ (pc[p] = "cb_code" /\ Acts(p))
                => /\ pc'[p] = "done"
                   /\ resp'[p].status = StatusFound
                   /\ Has(authCodes', resp'[p].code)]_vars

\* a /callback without a code was answered 400 and the pending request
\* its state names is in the store
C40_Witness ==
    \E p \in Procs :
        /\ pc[p] = "done"
        /\ req[p].kind = "callback"
        /\ req[p].upcode = ""
        /\ resp[p].status = StatusBadRequest
        /\ Has(authRequests, req[p].cbstate)
        /\ ~After(now, authRequests[req[p].cbstate].ExpiresAt)

====
